---- MODULE Spec2Model ----
(***************************************************************************)
(* WireGuard Namespace Manager (WGNM.py): the namespace/topology lifecycle *)
(* (create_setup, restore_setup, delete_setup, the Tunnel State Store) and *)
(* the credential synchronisation pass (refresh_uuids_for_all_namespaces). *)
(*                                                                         *)
(* Conventions.  A namespace name is a pair <<prefix, port>>: <<"ns", p>>  *)
(* is "ns-<p>", <<"nsxray", 0>> is the legacy "nsxray".  An address        *)
(* 10.100.<o>.2 is its octet o, 0 is "no such address".  A credential      *)
(* identifier is a small integer, ordered as the strings are ordered.  A   *)
(* file that holds a list is that list, <<0>> when the file is absent.     *)
(* An md5 digest of a text is the text itself (digests are compared only   *)
(* for equality), None is <<0>>, the empty string is <<-1>>.  A modifica-  *)
(* tion time is a positive integer, 0 is None.                             *)
(***************************************************************************)
EXTENDS Integers, Sequences, FiniteSets, TLC

\* ---------------------------------------------------------------- bounds
MaxMtime == 2
\* --auto-refresh processes spawned where the service cannot be had
MaxFallbacks == 2
\* rows per table of the panel database
MaxRows == 2

\* buffer-fulls of a file of the program
MaxBlocks == 2

\* the largest port read_port accepts
MaxPort == 65535

\* ------------------------------------------------------------- universes
Ports == {250, 500, 9349}
LegacyPort == 9349
Configs == {"c1", "c2"}
\* the port a configuration file carries in its name: "c2" stands for
\* /root/wg-250.conf, "c1" for a path with no digits in its file name
ConfigPort == [c \in Configs |-> IF c = "c2" THEN 250 ELSE 0]
Procs == {"ui", "svc"}
\* max_consecutive_errors of the thread loop
max_consecutive_errors == 10
\* the threads of the menu process that may call start_uuid_watcher
Callers == {"t1", "t2"}
Protos == <<"tcp", "udp">>

None == <<0>>
EmptyString == <<-1>>
Absent == <<0>>

\* paths of a panel database: DbPath is where the panel keeps its database,
\* OldPath a path at which there is no file, NoPath stands for None
NoPath == "nopath"
DbPath == "db"
OldPath == "old"

NsName(p) == <<"ns", p>>
NSXRAY == <<"nsxray", 0>>
Namespaces == {NsName(p) : p \in Ports} \cup {NSXRAY}

\* n.startswith("ns-")
IsManagedName(ns) == ns[1] = "ns"

\* the identifier lists the credential source can yield: no user, one user,
\* two users in either order
DbContents == {<<>>, <<1>>, <<1, 2>>, <<2, 1>>}

\* --------------------------------------------------------------- state
VARIABLES
  nsList,         \* `ip netns list`
  nsAddr,         \* per namespace: octet of its first 10.100.x.2 address, 0 if none
  vethHost,       \* per port: host link veth-<port>: "none", "noaddr", "ok"
  wgLoc,          \* per port: tunnel interface: "none", "host", "ns"
  nsRoutes,       \* ports whose namespace has routes, policy rule and mark rule
  dnat,           \* host nat PREROUTING DNAT rules, in chain order
  masq,           \* host nat POSTROUTING MASQUERADE rules, in chain order
  fwd,            \* host FORWARD ACCEPT rules, in chain order
  logRules,       \* host LOG rules of enable_realtime_logging
  dnsOverride,    \* namespaces with /etc/netns/<ns>/resolv.conf
  stateFiles,     \* /etc/setup-wg/tunnel-<port>.state, by the port in the file name
  cfgFiles,       \* tunnel configuration files that exist
  dbExists,       \* the credential source file exists
  dbMtime,        \* its modification time
  dbUuids,        \* what extract_uuids_from_sqlite returns for it
  dbTables,       \* its content: the rows of the two tables and the identifiers
                  \* whose text occurs in its bytes
  configSaved,    \* panel_db_path of config.json (NoPath: none)
  panelSaved,     \* the path in the panel state file (NoPath: no file)
  PANEL_DB_PATH,  \* per process: the global (NoPath: None)
  LAST_UUID_HASH, \* per process: the global
  hashFile,       \* last_hash.txt
  mtimeFile,      \* last_db_mtime.txt
  uuidFile,       \* per port: uuids-<port>.txt
  xrayConf,       \* per port: the client list in /tmp/xray-<port>.json
  xrayProcs,      \* running proxies: [ns, port, allow]
  xrayBin,        \* ensure_xray_binary() succeeds
  UUID_WATCHER_STARTED,  \* menu process: the flag of start_uuid_watcher
  UUID_WATCHER_LOCK,     \* "free" or the caller that holds the lock
  callerPc,       \* per caller: where it is in start_uuid_watcher
  threads,        \* polling threads started in the menu process
  supervisor,     \* systemctl can set up and start the watcher service
  serviceActive,  \* the watcher service is active (auto_refresh_main in svc)
  fallbacks,      \* --auto-refresh processes spawned by --start-watcher
  loopPc,         \* per process: its polling loop is off, at a tick, asleep, stopped
  consecutive_errors,    \* the counter of the thread loop
  lastTick,       \* history: the last tick of a polling loop
  lastPass,       \* log of the last pass of refresh_uuids_for_all_namespaces
                  \* (from: where its previous hash came from; srcSame: the
                  \* source is as that pass read it)
  lastOp,         \* log of the last provisioning operation, or of a change to
                  \* the topology or the config files made behind the program
  topo,           \* the port the operator names, the last operation run on it
                  \* and the names and addresses that operation derived
  io,             \* one file under a write of the program: its content before,
                  \* the content being written, what is in the file now, where
                  \* the writer is, and what a concurrent reader got
  entry,          \* a port on its way into the program: where it comes from,
                  \* the text it is read from, where the entry point stands
                  \* and the calls it has made with the port, and the
                  \* ports that have a file in the state store
  wait,           \* restart_wireguard: where it stands, its port, the probes
                  \* made and the seconds slept in its handshake wait, whether
                  \* the interface has a handshake, what the wait detected and
                  \* what the call printed
  pass,           \* two passes of refresh_uuids_for_all_namespaces taken step by
                  \* step, one per process: where each stands and its locals,
                  \* and the launches per namespace since the source changed
  logw            \* the marzban log watcher: PANEL_PANEL_NAME and
                  \* MARZBAN_LOG_WATCHER_STARTED of the menu process, whether the
                  \* marzban CLI is installed, the threads that follow
                  \* `marzban logs`, and the lines the panel has logged

netVars == <<nsList, nsAddr, vethHost, wgLoc, nsRoutes, dnat, masq, fwd, logRules,
            dnsOverride>>
storeVars == <<stateFiles, cfgFiles>>
srcVars == <<dbExists, dbMtime, dbUuids, dbTables>>
syncVars == <<configSaved, panelSaved, PANEL_DB_PATH, LAST_UUID_HASH, hashFile, mtimeFile,
              uuidFile, xrayConf, xrayProcs, xrayBin>>
watchVars == <<UUID_WATCHER_STARTED, UUID_WATCHER_LOCK, callerPc, threads, supervisor,
               serviceActive, fallbacks, loopPc, consecutive_errors, lastTick>>
unitVars == <<topo, io, entry, wait, pass, logw>>
vars == <<netVars, storeVars, srcVars, syncVars, watchVars, lastPass, lastOp, unitVars>>

\* the whole state as one record, for the operators that compute a handler
World == [nsList |-> nsList, nsAddr |-> nsAddr, vethHost |-> vethHost,
          wgLoc |-> wgLoc, nsRoutes |-> nsRoutes, dnat |-> dnat, masq |-> masq,
          fwd |-> fwd, logRules |-> logRules, dnsOverride |-> dnsOverride,
          stateFiles |-> stateFiles,
          cfgFiles |-> cfgFiles, dbExists |-> dbExists, dbMtime |-> dbMtime,
          dbUuids |-> dbUuids, configSaved |-> configSaved, panelSaved |-> panelSaved,
          PANEL_DB_PATH |-> PANEL_DB_PATH, LAST_UUID_HASH |-> LAST_UUID_HASH,
          hashFile |-> hashFile, mtimeFile |-> mtimeFile, uuidFile |-> uuidFile,
          xrayConf |-> xrayConf, xrayProcs |-> xrayProcs, xrayBin |-> xrayBin]

CommitState(w) ==
  /\ nsList' = w.nsList
  /\ nsAddr' = w.nsAddr
  /\ vethHost' = w.vethHost
  /\ wgLoc' = w.wgLoc
  /\ nsRoutes' = w.nsRoutes
  /\ dnat' = w.dnat
  /\ masq' = w.masq
  /\ fwd' = w.fwd
  /\ logRules' = w.logRules
  /\ dnsOverride' = w.dnsOverride
  /\ stateFiles' = w.stateFiles
  /\ cfgFiles' = w.cfgFiles
  /\ dbExists' = w.dbExists
  /\ dbMtime' = w.dbMtime
  /\ dbUuids' = w.dbUuids
  /\ UNCHANGED dbTables
  /\ configSaved' = w.configSaved
  /\ panelSaved' = w.panelSaved
  /\ PANEL_DB_PATH' = w.PANEL_DB_PATH
  /\ LAST_UUID_HASH' = w.LAST_UUID_HASH
  /\ hashFile' = w.hashFile
  /\ mtimeFile' = w.mtimeFile
  /\ uuidFile' = w.uuidFile
  /\ xrayConf' = w.xrayConf
  /\ xrayProcs' = w.xrayProcs
  /\ xrayBin' = w.xrayBin

\* a handler that has nothing to do with the watcher
CommitWorld(w) == CommitState(w) /\ UNCHANGED unitVars

Commit(w) == CommitWorld(w) /\ UNCHANGED watchVars

\* ------------------------------------------------- credential fingerprint
Range(seq) == {seq[i] : i \in 1..Len(seq)}

\* sorted(uuids)
sorted(s) == SortSeq(s, LAMBDA a, b : a < b)

\* mutant: the identifiers are hashed in the order they come
get_uuids_hash_unsorted(uuids) == uuids

\* get_uuids_hash: md5 of the sorted identifiers joined by newlines
get_uuids_hash(uuids) == sorted(uuids)

\* mutant: the persisted hash is never read back
load_last_uuid_hash_lost(w) == None

\* load_last_uuid_hash: None when the file is absent, else its content
load_last_uuid_hash(w) == w.hashFile

\* load_last_db_mtime
load_last_db_mtime(w) == w.mtimeFile

\* get_db_mtime
get_db_mtime(w) == w.dbMtime

\* extract_uuids_from_sqlite: [] when the file is missing
extract_uuids_from_sqlite(w) == IF w.dbExists THEN w.dbUuids ELSE <<>>

\* --- the extraction, from the content of the database
\* sorted(matches) of a set of matches
SortedSeqOf(S) ==
  CHOOSE q \in [1..Cardinality(S) -> S] :
     /\ Range(q) = S
     /\ \A i, j \in 1..Cardinality(S) : i < j => q[i] < q[j]

\* _extract_uuids_raw_file: every identifier whose text occurs in the bytes of
\* the file, once, in sorted order
extract_uuids_raw_file(t) == SortedSeqOf(t.text)

\* mutant: the rows of users are appended as they come
AppendEvery(uuids, rows) == uuids \o rows

\* the loop over the rows of users: `if v and v not in uuids: uuids.append(v)`
RECURSIVE AppendUnseen(_, _)
AppendUnseen(uuids, rows) ==
  IF rows = <<>> THEN uuids
  ELSE AppendUnseen(IF Head(rows) \in Range(uuids) THEN uuids
                    ELSE Append(uuids, Head(rows)),
                    Tail(rows))

\* the structured path of extract_uuids_from_sqlite: the identifier of every
\* VLESS row of proxies is appended, then the values of users that the list
\* does not hold yet.  mode: "noschema" when neither table has the columns,
\* "error" when sqlite3 raises before a row is read, "error_users" when it
\* raises at the query on users (what proxies gave stays in the list)
structured_uuids(t) ==
  CASE t.mode = "ok" -> AppendUnseen(t.proxies, t.users)
    [] t.mode = "error_users" -> t.proxies
    [] OTHER -> <<>>

\* mutant: the raw scan is used whenever the schema is not the known one
use_raw_scan_on_schema(t, uuids) == t.mode # "ok"

\* `if not uuids`
use_raw_scan(t, uuids) == uuids = <<>>

\* extract_uuids_from_sqlite on a file that exists
extract_uuids_from_rows(t) ==
  IF use_raw_scan(t, structured_uuids(t)) THEN extract_uuids_raw_file(t)
  ELSE structured_uuids(t)

\* a database whose table users holds u and whose table proxies is empty
TablesOf(u) == [mode |-> "ok", proxies |-> <<>>, users |-> u, text |-> Range(u)]

\* save_uuids_to_file writes the identifiers sorted, one per line
save_uuids_to_file(uuids) == sorted(uuids)

\* create_xray_config with a non-empty list embeds the list as given
create_xray_config(uuids) == uuids

\* ----------------------------------------------- namespace -> port lookup
\* mutant: the octet without the offset
SubnetOctetPlain(p) == p % 250

\* subnet_octet = (port % 250) + 2
SubnetOctet(p) == (p % 250) + 2

\* grep 'to-destination 10.100.<o>.2' against '--to-destination 10.100.<r>.2:<port>':
\* the dots of the pattern match any character and the pattern is not anchored
\* at its end, so it also matches a three-digit octet <o>X2 for one-digit <o>
GrepMatches(o, r) == \/ r = o
                     \/ /\ o < 10
                        /\ \E x \in 0..9 : r = o * 100 + x * 10 + 2

\* iptables -t nat -S PREROUTING | grep 'to-destination <ns_ip>' | head -1 | port
\* (0 when nothing matches: port_str is not a digit string)
RECURSIVE FirstDnatPort(_, _)
FirstDnatPort(rules, o) ==
  IF rules = <<>> THEN 0
  ELSE IF GrepMatches(o, Head(rules).oct) THEN Head(rules).port
  ELSE FirstDnatPort(Tail(rules), o)

\* the port the pass infers for a namespace, 0 when it has no address or no rule
InferPort(w, ns) ==
  IF w.nsAddr[ns] = 0 THEN 0 ELSE FirstDnatPort(w.dnat, w.nsAddr[ns])

ManagedNamespaces(w) == {ns \in w.nsList : IsManagedName(ns)}

\* the namespaces a pass can act on, each with the port inferred for it
Derivable(w) == {<<ns, InferPort(w, ns)>> : ns \in {n \in ManagedNamespaces(w) : InferPort(w, n) # 0}}

\* ------------------------------------------------ the synchronisation pass
\* ensure_xray_binary: the binary is present or can be found or downloaded
ensure_xray_binary(w) == w.xrayBin

NoLaunches == [ns \in Namespaces |-> 0]

\* the log of a pass that has done nothing yet
PassLog(prev, proc, force, phase) ==
  [seq |-> 1 - prev.seq, proc |-> proc, force |-> force, phase |-> phase,
   from |-> "none", srcSame |-> FALSE, fileChanged |-> FALSE, changed |-> FALSE,
   kills |-> {}, launches |-> NoLaunches]

\* choose_uuids_from_panel, as far as the panel globals go: the operator picks
\* a panel whose database file exists, which sets and persists the path
choose_uuids_from_panel(w, proc, pick) ==
  IF pick /\ w.dbExists
  THEN [w EXCEPT !.PANEL_DB_PATH[proc] = DbPath, !.panelSaved = DbPath]
  ELSE w

\* load_panel_state: the path of config.json when it has one, else the path of
\* the panel state file when there is one
load_panel_state(w, proc) ==
  IF w.configSaved # NoPath THEN [w EXCEPT !.PANEL_DB_PATH[proc] = w.configSaved]
  ELSE IF w.panelSaved # NoPath THEN [w EXCEPT !.PANEL_DB_PATH[proc] = w.panelSaved]
  ELSE w

\* db_path and os.path.isfile(db_path)
isfile(w, db_path) == db_path = DbPath /\ w.dbExists

\* ss -ltnp | grep ':<port> ' inside the namespace
PidsOnPort(w, ns, port) == {x \in w.xrayProcs : x.ns = ns /\ x.port = port}

\* one iteration of the loop of the unchanged branch: only the credential file
UpdateFileOnly(st, ns, uuids) ==
  LET port == InferPort(st.w, ns)
  IN  IF st.w.nsAddr[ns] = 0 THEN st
      ELSE IF port = 0 THEN st
      ELSE [st EXCEPT !.w.uuidFile[port] = save_uuids_to_file(uuids)]

\* mutant: the changed branch launches without killing what listens on the port
SyncNamespaceNoKill(st, ns, uuids) ==
  LET port == InferPort(st.w, ns)
  IN  IF st.w.nsAddr[ns] = 0 \/ port = 0 THEN st
      ELSE LET st1 == [st EXCEPT !.w.uuidFile[port] = save_uuids_to_file(uuids)]
               proxy == [ns |-> ns, port |-> port, allow |-> create_xray_config(uuids)]
           IN  IF ~ ensure_xray_binary(st1.w) THEN st1
               ELSE [st1 EXCEPT !.w.xrayConf[port] = create_xray_config(uuids),
                                !.w.xrayProcs = @ \cup {proxy},
                                !.log.launches[ns] = @ + 1]

\* one iteration of the loop of the changed branch: credential file, proxy
\* configuration, kill of the proxies listening on the port, launch
SyncNamespace(st, ns, uuids) ==
  LET port == InferPort(st.w, ns)
  IN  IF st.w.nsAddr[ns] = 0 THEN st
      ELSE IF port = 0 THEN st
      ELSE LET st1 == [st EXCEPT !.w.uuidFile[port] = save_uuids_to_file(uuids)]
           IN  IF ~ ensure_xray_binary(st1.w) THEN st1
               ELSE LET conf == create_xray_config(uuids)
                        pids == PidsOnPort(st1.w, ns, port)
                        proxy == [ns |-> ns, port |-> port, allow |-> conf]
                    IN  [st1 EXCEPT !.w.xrayConf[port] = conf,
                                    !.w.xrayProcs = (@ \ pids) \cup {proxy},
                                    !.log.kills = @ \cup (IF pids = {} THEN {} ELSE {<<ns, port>>}),
                                    !.log.launches[ns] = @ + 1]

\* for ns in namespaces: ... ; each iteration works on the state the previous
\* one left, which is bound once (s) before the iteration is applied to it
RECURSIVE ForEachNamespace(_, _, _, _)
ForEachNamespace(st, todo, uuids, changed) ==
  IF todo = {} THEN st
  ELSE CHOOSE r \in {ForEachNamespace(IF changed THEN SyncNamespace(s, ns, uuids)
                                      ELSE UpdateFileOnly(s, ns, uuids),
                                      rest \ {ns}, uuids, changed)
                     : <<s, rest, ns>> \in {<<st, todo, CHOOSE n \in todo : TRUE>>}} : TRUE

\* mutant: the decision ignores the modification time of the source
uuids_changed_ignoring_mtime(old_hash, current_uuid_hash, db_file_changed, force_restart) ==
  \/ old_hash = None
  \/ old_hash # current_uuid_hash
  \/ force_restart

\* uuids_changed, from the previous hash the pass holds
uuids_changed(old_hash, current_uuid_hash, db_file_changed, force_restart) ==
  \/ old_hash = None
  \/ old_hash # current_uuid_hash
  \/ db_file_changed
  \/ force_restart

\* the previous hash: the global when it is set, else the file, where a
\* cleared file ("") counts as none
old_hash_of(w, proc) ==
  LET old_hash_from_file == IF load_last_uuid_hash(w) = EmptyString THEN None
                            ELSE load_last_uuid_hash(w)
  IN  IF w.LAST_UUID_HASH[proc] # None THEN w.LAST_UUID_HASH[proc]
      ELSE old_hash_from_file

\* refresh_uuids_for_all_namespaces(interactive, force_restart) in process proc;
\* pick is the operator's answer when the interactive path prompts for a panel
refresh_uuids_for_all_namespaces(w0, prev, proc, interactive, force_restart, pick) ==
  LET log0 == PassLog(prev, proc, force_restart, "nodb")
      wA == IF isfile(w0, w0.PANEL_DB_PATH[proc]) THEN w0
            ELSE IF interactive THEN choose_uuids_from_panel(w0, proc, pick)
            ELSE load_panel_state(w0, proc)
  IN
  IF ~ isfile(wA, wA.PANEL_DB_PATH[proc]) THEN [w |-> wA, log |-> log0]
  ELSE
  LET current_db_mtime == get_db_mtime(wA)
      last_db_mtime == load_last_db_mtime(wA)
      db_file_changed == last_db_mtime = 0 \/ current_db_mtime # last_db_mtime
      wB == IF db_file_changed THEN [wA EXCEPT !.hashFile = EmptyString] ELSE wA
      uuids == extract_uuids_from_sqlite(wB)
      log1 == [log0 EXCEPT !.srcSame = TRUE, !.fileChanged = db_file_changed]
  IN
  IF uuids = <<>> THEN [w |-> wB, log |-> [log1 EXCEPT !.phase = "empty"]]
  ELSE
  LET current_uuid_hash == get_uuids_hash(uuids)
      old_hash == old_hash_of(wB, proc)
      wC == [wB EXCEPT !.LAST_UUID_HASH[proc] = current_uuid_hash,
                       !.hashFile = current_uuid_hash,
                       !.mtimeFile = IF current_db_mtime # 0 THEN current_db_mtime ELSE @]
      changed == uuids_changed(old_hash, current_uuid_hash, db_file_changed, force_restart)
      log2 == [log1 EXCEPT !.changed = changed,
                           !.from = IF wB.LAST_UUID_HASH[proc] # None THEN "memory"
                                    ELSE IF old_hash # None THEN "file" ELSE "none"]
      namespaces == ManagedNamespaces(wC)
  IN
  IF ~ changed
  THEN ForEachNamespace([w |-> wC, log |-> [log2 EXCEPT !.phase = "unchanged"]],
                        namespaces, uuids, FALSE)
  ELSE IF namespaces = {} THEN [w |-> wC, log |-> [log2 EXCEPT !.phase = "nons"]]
  ELSE ForEachNamespace([w |-> wC, log |-> [log2 EXCEPT !.phase = "synced"]],
                        namespaces, uuids, TRUE)

\* refresh_uuids_for_all_namespaces_noninteractive: one watcher tick
refresh_uuids_for_all_namespaces_noninteractive(w0, prev, proc) ==
  LET wA == IF w0.PANEL_DB_PATH[proc] = NoPath THEN load_panel_state(w0, proc) ELSE w0
  IN  IF ~ isfile(wA, wA.PANEL_DB_PATH[proc])
      THEN [w |-> wA, log |-> PassLog(prev, proc, FALSE, "nodb")]
      ELSE refresh_uuids_for_all_namespaces(wA, prev, proc, FALSE, FALSE, FALSE)

\* --------------------------------------------------- network primitives
LegacyOct == 1000      \* stands for the legacy address 10.200.200.2
LegacyVeth == 0        \* stands for the legacy host link "veth-host"
Links == Ports \cup {LegacyVeth}

DnatRule(proto, port, o) == [proto |-> proto, port |-> port, oct |-> o]
MasqRule(o, veth) == [oct |-> o, veth |-> veth]
FwdInRule(proto, o, port) == [kind |-> "in", proto |-> proto, oct |-> o, port |-> port]
FwdOutRule(proto, o) == [kind |-> "out", proto |-> proto, oct |-> o, port |-> 0]

\* iptables -D <rule> 2>/dev/null || true: drop the first rule equal to r, if any
RECURSIVE DelFirst(_, _)
DelFirst(rules, r) ==
  IF rules = <<>> THEN <<>>
  ELSE IF Head(rules) = r THEN Tail(rules)
  ELSE <<Head(rules)>> \o DelFirst(Tail(rules), r)

\* iptables -A <rule>
AppendRule(rules, r) == Append(rules, r)

\* iptables -I <chain> 1 <rule>
InsertFirst(rules, r) == <<r>> \o rules

Count(rules, r) == Cardinality({i \in 1..Len(rules) : rules[i] = r})

\* ip netns delete <ns> 2>/dev/null || true: the name goes, and with it what the
\* program can see of the namespace (address, tunnel interface, routes, proxies)
NetnsDelete(w, ns) ==
  IF ns \notin w.nsList THEN w
  ELSE [w EXCEPT !.nsList = @ \ {ns},
                 !.nsAddr[ns] = 0,
                 !.wgLoc = [q \in Ports |-> IF ns = NsName(q) /\ @[q] = "ns" THEN "none" ELSE @[q]],
                 !.nsRoutes = {q \in @ : NsName(q) # ns},
                 !.xrayProcs = {x \in @ : x.ns # ns}]

\* ip link delete <veth> 2>/dev/null || true: both ends of the pair go
LinkDelete(w, v) ==
  IF w.vethHost[v] = "none" THEN w
  ELSE [w EXCEPT !.vethHost[v] = "none",
                 !.nsAddr = [n \in Namespaces |-> IF v \in Ports /\ n = NsName(v) THEN 0 ELSE @[n]],
                 !.nsRoutes = @ \ {v}]

\* mutant: the cleanup deletes the DNAT rule of tcp only
DeleteDnatTcp(w, port, o) ==
  [w EXCEPT !.dnat = DelFirst(@, DnatRule("tcp", port, o))]

\* the DNAT rule of both protocols, then the masquerade rule, then the forward
\* rules of both protocols: every -D of the cleanup, in the order of the code
DeleteDnat(w, port, o) ==
  [w EXCEPT !.dnat = DelFirst(DelFirst(@, DnatRule("tcp", port, o)), DnatRule("udp", port, o))]

DeleteMasq(w, o, v) == [w EXCEPT !.masq = DelFirst(@, MasqRule(o, v))]

DeleteForward(w, port, o) ==
  [w EXCEPT !.fwd = DelFirst(DelFirst(DelFirst(DelFirst(@,
                       FwdInRule("tcp", o, port)), FwdOutRule("tcp", o)),
                       FwdInRule("udp", o, port)), FwdOutRule("udp", o))]

\* the LOG rules of a port: the PREROUTING rules name the port only, the
\* FORWARD rules ([FWD-], [RET-]) name the namespace address too
LogDnatRule(port) == [kind |-> "dnat", port |-> port, oct |-> 0]
LogFwdRule(port, o) == [kind |-> "fwd", port |-> port, oct |-> o]

\* mutant: the cleanup forgets the LOG rules of the FORWARD chain
DeleteLogRulesOfDnat(w, port, o) ==
  [w EXCEPT !.logRules = @ \ {LogDnatRule(port)}]

\* the LOG rules cleanup of delete_setup
DeleteLogRules(w, port, o) ==
  [w EXCEPT !.logRules = @ \ {LogDnatRule(port), LogFwdRule(port, o)}]

\* enable_realtime_logging up to the point where it follows the kernel log
AddLogRules(w, port) ==
  [w EXCEPT !.logRules = @ \cup {LogDnatRule(port), LogFwdRule(port, SubnetOctet(port))}]

\* the DNAT + FORWARD loop of create_setup and restore_setup for one protocol:
\* each rule is deleted, then added again (the add is skipped when it fails)
AddDnatForward(w, proto, port, o, fail) ==
  LET d1 == DelFirst(w.dnat, DnatRule(proto, port, o))
      d2 == IF fail = "dnat" THEN d1 ELSE AppendRule(d1, DnatRule(proto, port, o))
      f1 == DelFirst(w.fwd, FwdInRule(proto, o, port))
      f2 == IF fail = "forward" THEN f1 ELSE InsertFirst(f1, FwdInRule(proto, o, port))
      f3 == DelFirst(f2, FwdOutRule(proto, o))
      f4 == IF fail = "forward" THEN f3 ELSE InsertFirst(f3, FwdOutRule(proto, o))
  IN  [w EXCEPT !.dnat = d2, !.fwd = f4]

\* ------------------------------------------------- the Tunnel State Store
NoRecord == [port |-> 0, cfg |-> "none"]

\* save_setup_state: tunnel-<port>.state holds the port and the config path
save_setup_state(w, port, wg_config_path) ==
  [w EXCEPT !.stateFiles[port] = [port |-> port, cfg |-> wg_config_path]]

\* mutant: the record of the port is left in place
delete_setup_state_kept(w, port) == w

\* delete_setup_state
delete_setup_state(w, port) == [w EXCEPT !.stateFiles[port] = NoRecord]

\* load_all_setup_states: the (port, path) of every record whose config file
\* exists; a record whose config file is missing is removed
load_all_setup_states_keeping(w) ==
  LET good == {n \in Ports : /\ w.stateFiles[n] # NoRecord
                             /\ w.stateFiles[n].cfg \in w.cfgFiles}
  IN  [tunnels |-> {<<w.stateFiles[n].port, w.stateFiles[n].cfg>> : n \in good},
       files |-> good,
       w |-> w]

load_all_setup_states(w) ==
  LET present == {n \in Ports : w.stateFiles[n] # NoRecord}
      good == {n \in present : w.stateFiles[n].cfg \in w.cfgFiles}
  IN  [tunnels |-> {<<w.stateFiles[n].port, w.stateFiles[n].cfg>> : n \in good},
       files |-> {n \in good : TRUE},
       w |-> [w EXCEPT !.stateFiles = [n \in Ports |-> IF n \in good THEN @[n] ELSE NoRecord]]]

\* ------------------------------------------------------------ provisioning
\* the provisioning steps that can fail, one per call ("none": no failure)
CheckedSteps == {"netns_add", "veth_add", "wg_add", "wg_setconf"}
UncheckedSteps == {"host_addr", "veth_move", "ns_addr", "wg_move", "routes",
                   "masq", "dnat", "forward", "dns"}
Steps == CheckedSteps \cup UncheckedSteps
StepsAfterNamespace == Steps \ {"netns_add"}
\* "netns_add": every `ip netns add` of the call fails; "netns_add_once": the
\* first one fails and one that follows an `ip netns delete` succeeds
ProvisioningFails == Steps \cup {"none", "netns_add_once"}

\* mutant: the endpoint is resolved after the namespace has been added
NoEndpointAfterNamespace(w, port) ==
  [w |-> [w EXCEPT !.nsList = @ \cup {NsName(port)}], result |-> "noresolve"]

\* endpoint resolution gave no address: the call returns (create_setup lines
\* 2216-2220, restore_setup lines 699-702)
NoEndpoint(w, port) == [w |-> w, result |-> "noresolve"]

\* create_setup from the cleanup to the DNS override (lines 2176-2404): the
\* resulting state and how the call left ("ok" goes on to save the state)
create_setup_net(w, port, resolved, fail) ==
  LET o == SubnetOctet(port)
      ns == NsName(port)
      \* cleanup existing
      c1 == LinkDelete(NetnsDelete(w, ns), port)
      c2 == DeleteForward(DeleteMasq(DeleteDnat(c1, port, o), o, port), port, o)
  IN
  IF ~ resolved THEN NoEndpoint(c2, port)
  \* lines 2224-2232: after a failed add, delete and add once more
  ELSE IF fail = "netns_add"
  THEN [w |-> NetnsDelete(c2, ns), result |-> "nsfail"]
  ELSE
  LET n1 == LinkDelete([c2 EXCEPT !.nsList = @ \cup {ns}], port)
  IN
  IF fail = "veth_add" THEN [w |-> NetnsDelete(n1, ns), result |-> "vethfail"]
  ELSE
  LET v1 == [n1 EXCEPT !.vethHost[port] = IF fail = "host_addr" THEN "noaddr" ELSE "ok"]
      v2 == [v1 EXCEPT !.nsAddr[ns] = IF fail \in {"veth_move", "ns_addr"} THEN 0 ELSE o]
      \* cleanup existing WG
      g0 == [v2 EXCEPT !.wgLoc[port] = "none"]
  IN
  IF fail = "wg_add"
  THEN [w |-> NetnsDelete(LinkDelete(g0, port), ns), result |-> "wgfail"]
  ELSE
  LET g1 == [g0 EXCEPT !.wgLoc[port] = "host"]
  IN
  IF fail = "wg_setconf"
  THEN [w |-> NetnsDelete(LinkDelete([g1 EXCEPT !.wgLoc[port] = "none"], port), ns),
        result |-> "conffail"]
  ELSE
  LET g2 == [g1 EXCEPT !.wgLoc[port] = IF fail = "wg_move" THEN "host" ELSE "ns"]
      r1 == [g2 EXCEPT !.nsRoutes =
                IF fail # "routes" /\ g2.wgLoc[port] = "ns" /\ g2.nsAddr[ns] # 0
                THEN @ \cup {port} ELSE @ \ {port}]
      m1 == DeleteMasq(r1, o, port)
      m2 == IF fail = "masq" THEN m1
            ELSE [m1 EXCEPT !.masq = AppendRule(@, MasqRule(o, port))]
      d1 == AddDnatForward(AddDnatForward(m2, "tcp", port, o, fail), "udp", port, o, fail)
  IN
  IF fail = "dns" THEN [w |-> d1, result |-> "dnsfail"]
  ELSE [w |-> [d1 EXCEPT !.dnsOverride = @ \cup {ns}], result |-> "ok"]

restore_setup_net_recreating(w, port, resolved, fail) ==
  create_setup_net(w, port, resolved, fail)

\* mutant: a failed link pair leaves the namespace behind
restore_setup_net_keeping(w, port, resolved, fail) ==
  IF resolved /\ fail = "veth_add"
  THEN [w |-> [w EXCEPT !.nsList = @ \cup {NsName(port)}], result |-> "vethfail"]
  ELSE create_setup_net(w, port, resolved, fail)

\* restore_setup from the existence check to the DNS override (lines 677-805)
restore_setup_net(w, port, resolved, fail) ==
  LET o == SubnetOctet(port)
      ns == NsName(port)
  IN
  IF ns \in w.nsList THEN [w |-> w, result |-> "exists"]
  ELSE IF ~ resolved THEN NoEndpoint(w, port)
  \* lines 705-707: a failed add is not tried again
  ELSE IF fail \in {"netns_add", "netns_add_once"} THEN [w |-> w, result |-> "nsfail"]
  ELSE
  LET n1 == LinkDelete([w EXCEPT !.nsList = @ \cup {ns}], port)
  IN
  IF fail = "veth_add" THEN [w |-> NetnsDelete(n1, ns), result |-> "vethfail"]
  ELSE
  LET v1 == [n1 EXCEPT !.vethHost[port] = IF fail = "host_addr" THEN "noaddr" ELSE "ok"]
      v2 == [v1 EXCEPT !.nsAddr[ns] = IF fail \in {"veth_move", "ns_addr"} THEN 0 ELSE o]
      g0 == [v2 EXCEPT !.wgLoc[port] = "none"]
  IN
  IF fail = "wg_add"
  THEN [w |-> NetnsDelete(LinkDelete(g0, port), ns), result |-> "wgfail"]
  ELSE
  LET g1 == [g0 EXCEPT !.wgLoc[port] = "host"]
  IN
  IF fail = "wg_setconf"
  THEN [w |-> NetnsDelete(LinkDelete([g1 EXCEPT !.wgLoc[port] = "none"], port), ns),
        result |-> "conffail"]
  ELSE
  LET g2 == [g1 EXCEPT !.wgLoc[port] = IF fail = "wg_move" THEN "host" ELSE "ns"]
      r1 == [g2 EXCEPT !.nsRoutes =
                IF fail # "routes" /\ g2.wgLoc[port] = "ns" /\ g2.nsAddr[ns] # 0
                THEN @ \cup {port} ELSE @ \ {port}]
      m1 == DeleteMasq(r1, o, port)
      m2 == IF fail = "masq" THEN m1
            ELSE [m1 EXCEPT !.masq = AppendRule(@, MasqRule(o, port))]
      d1 == AddDnatForward(AddDnatForward(m2, "tcp", port, o, fail), "udp", port, o, fail)
  IN
  IF fail = "dns" THEN [w |-> d1, result |-> "dnsfail"]
  ELSE [w |-> [d1 EXCEPT !.dnsOverride = @ \cup {ns}], result |-> "ok"]

\* delete_setup (lines 2678-2748): which namespace it picks
delete_target(w, port) ==
  IF NsName(port) \in w.nsList THEN [ns |-> NsName(port), exists |-> TRUE]
  ELSE IF port = LegacyPort /\ NSXRAY \in w.nsList THEN [ns |-> NSXRAY, exists |-> TRUE]
  ELSE [ns |-> NsName(port), exists |-> FALSE]

delete_setup(w, port) ==
  LET t == delete_target(w, port)
      veth_host == IF t.ns = NSXRAY THEN LegacyVeth ELSE port
      o == IF t.ns = NSXRAY THEN LegacyOct ELSE SubnetOctet(port)
      w1 == IF t.exists THEN NetnsDelete(w, t.ns) ELSE w
      w2 == LinkDelete(w1, veth_host)
      w3 == DeleteForward(DeleteMasq(DeleteDnat(w2, port, o), o, veth_host), port, o)
  IN  delete_setup_state(DeleteLogRules(w3, port, o), port)

\* ------------------------------------------------------------ file writes
\* save_uuids_to_file, save_last_uuid_hash, save_last_db_mtime and
\* create_xray_config write with open(path, "w") and f.write: the open
\* truncates the file, a full buffer goes to the file while the writes still
\* run, the rest at the close.  A content is a sequence of buffer-fulls; the
\* two markers fit one buffer.
FileKinds == {"uuids", "last_hash", "last_db_mtime", "xray_conf"}
Blocks == {1, 2}
Contents(file) ==
  UNION {[1..n -> Blocks] : n \in (IF file = "xray_conf" THEN 1 ELSE 0)
                                  ..(IF file \in {"last_hash", "last_db_mtime"} THEN 1
                                     ELSE MaxBlocks)}
NotRead == <<0>>
NoIo == [file |-> "none", old |-> <<>>, new |-> <<>>, disk |-> <<>>, pc |-> "idle",
         seen |-> NotRead]

\* open(path, "w")
open_w(disk) == <<>>

\* a step of a write or of a read of the file changes nothing else
IoFrame ==
  /\ CommitState(World)
  /\ UNCHANGED <<watchVars, lastPass, lastOp, topo, entry, wait, pass, logw>>

\* with open(path, "w") as f
OpenForWrite ==
  /\ io.pc = "idle"
  /\ io' = [io EXCEPT !.pc = "open", !.disk = open_w(io.disk)]
  /\ IoFrame

\* f.write fills the buffer, which is written to the file
FlushBlock ==
  /\ io.pc = "open"
  /\ Len(io.disk) + 1 < Len(io.new)
  /\ io' = [io EXCEPT !.disk = SubSeq(io.new, 1, Len(io.disk) + 1)]
  /\ IoFrame

\* the end of the with block
CloseFile ==
  /\ io.pc = "open"
  /\ io' = [io EXCEPT !.pc = "closed", !.disk = io.new]
  /\ IoFrame

\* another process, or the proxy that is being launched, reads the file
ReadFile ==
  /\ io.seen = NotRead
  /\ io' = [io EXCEPT !.seen = io.disk]
  /\ IoFrame

\* ------------------------------------------------- the ports that come in
\* A text is a sequence of characters, each a string of length one.
Digits == {"0", "1", "2", "3", "4", "5", "6", "7", "8", "9"}

DigitValue ==
  "0" :> 0 @@ "1" :> 1 @@ "2" :> 2 @@ "3" :> 3 @@ "4" :> 4 @@
  "5" :> 5 @@ "6" :> 6 @@ "7" :> 7 @@ "8" :> 8 @@ "9" :> 9

\* str.isdigit: at least one character and digits only
isdigit(s) == s # <<>> /\ \A i \in 1..Len(s) : s[i] \in Digits

RECURSIVE DecimalValue(_)
DecimalValue(s) ==
  IF s = <<>> THEN 0
  ELSE 10 * DecimalValue(SubSeq(s, 1, Len(s) - 1)) + DigitValue[s[Len(s)]]

\* int(text): an optional sign and digits, ValueError for anything else
ValueError == [ok |-> FALSE, value |-> 0]
int(s) ==
  LET signed == s # <<>> /\ s[1] \in {"+", "-"}
      body == IF signed THEN Tail(s) ELSE s
  IN IF ~ isdigit(body) THEN ValueError
     ELSE [ok |-> TRUE,
           value |-> IF signed /\ s[1] = "-" THEN 0 - DecimalValue(body)
                     ELSE DecimalValue(body)]

startswith(s, pre) == Len(s) >= Len(pre) /\ SubSeq(s, 1, Len(pre)) = pre
endswith(s, suf) == Len(s) >= Len(suf) /\ SubSeq(s, Len(s) - Len(suf) + 1, Len(s)) = suf

LeastOf(S) == CHOOSE i \in S : \A j \in S : i <= j

\* re.search(r'(\d+)', filename).group(1): the first run of digits, <<>> when
\* the name has no digit
first_digits(s) ==
  LET at == {i \in 1..Len(s) : s[i] \in Digits}
  IN IF at = {} THEN <<>>
     ELSE LET a == LeastOf(at)
              b == LeastOf({j \in a..Len(s) : j = Len(s) \/ s[j + 1] \notin Digits})
          IN SubSeq(s, a, b)

\* ns_name.split("-")[1] of a name that holds a dash
second_field(s) ==
  LET at == {i \in 1..Len(s) : s[i] = "-"}
      a == LeastOf(at)
      later == {i \in at : i > a}
  IN SubSeq(s, a + 1, (IF later = {} THEN Len(s) + 1 ELSE LeastOf(later)) - 1)

\* read_port on one line typed at its prompt: the port it returns, or no port
\* and the prompt again (not digits, out of range, or in use and not
\* confirmed)
read_port(p_str, in_use, ans) ==
  IF ~ isdigit(p_str) THEN ValueError
  ELSE IF ~ (1 <= int(p_str).value /\ int(p_str).value <= MaxPort) THEN ValueError
  ELSE IF in_use /\ ans # "y" THEN ValueError
  ELSE int(p_str)

\* the port delete_setup works with when the menu calls it without one
delete_setup_port(text) == int(text)

\* the port detect_existing_tunnels reads from the name of a namespace
namespace_port(ns_name) ==
  IF ~ startswith(ns_name, <<"n", "s", "-">>) THEN ValueError
  ELSE int(second_field(ns_name))

\* the port scan_wg_config_files reads from the name of a file
filename_port(filename) ==
  IF ~ endswith(filename, <<".", "c", "o", "n", "f">>) THEN ValueError
  ELSE IF first_digits(filename) = <<>> THEN ValueError
  ELSE int(first_digits(filename))

NoEntry == [path |-> "none", text |-> <<>>, pc |-> "menu", calls |-> <<>>, saved |-> {}]

\* the ports with a state file after the calls: save_setup_state writes the
\* file of its port, delete_setup ends with delete_setup_state
RECURSIVE StoreAfter(_, _)
StoreAfter(saved, calls) ==
  IF calls = <<>> THEN saved
  ELSE StoreAfter(CASE Head(calls)[1] = "save_setup_state" -> saved \cup {Head(calls)[2]}
                    [] Head(calls)[1] = "delete_setup" -> saved \ {Head(calls)[2]}
                    [] OTHER -> saved,
                  Tail(calls))

Handed(path, text, pc, calls) ==
  [path |-> path, text |-> text, pc |-> pc, calls |-> calls,
   saved |-> StoreAfter(entry.saved, calls)]

EntryFrame ==
  CommitState(World) /\ UNCHANGED <<watchVars, lastPass, lastOp, topo, io, wait, pass, logw>>

\* menu option 1, create_setup: the port of read_port, saved once the
\* topology is built
CreateEntry(text, in_use, ans, built) ==
  LET r == read_port(text, in_use, ans)
  IN /\ entry' = IF ~ r.ok THEN Handed("create", text, "prompt", <<>>)
                  ELSE IF ~ built THEN Handed("create", text, "failed", <<>>)
                  ELSE Handed("create", text, "done",
                              <<<<"save_setup_state", r.value>>>>)
     /\ EntryFrame

\* menu option 7, restore_from_config_file: the port of read_port; an
\* existing namespace is deleted when the operator agrees; a restored tunnel
\* is saved
ManualRestoreEntry(text, exists, recreate, restored) ==
  LET r == read_port(text, FALSE, "n")
      deleted == IF exists THEN <<<<"delete_setup", r.value>>>> ELSE <<>>
  IN /\ entry' = IF ~ r.ok THEN Handed("manual_restore", text, "prompt", <<>>)
                  ELSE IF exists /\ ~ recreate
                       THEN Handed("manual_restore", text, "cancelled", <<>>)
                  ELSE IF ~ restored
                       THEN Handed("manual_restore", text, "failed",
                                   deleted \o <<<<"restore_setup", r.value>>>>)
                  ELSE Handed("manual_restore", text, "done",
                              deleted \o <<<<"restore_setup", r.value>>,
                                           <<"save_setup_state", r.value>>>>)
     /\ EntryFrame

\* menu option 4, delete_setup(): the port is int() of the line typed
DeleteEntry(text) ==
  LET r == delete_setup_port(text)
  IN /\ entry' = IF ~ r.ok THEN Handed("delete", text, "returned", <<>>)
                  ELSE Handed("delete", text, "done", <<<<"delete_setup", r.value>>>>)
     /\ EntryFrame

\* restore_all_setups with nothing saved, a namespace on the host: the port
\* is read from its name; with an address in the namespace and a
\* configuration file found for the port, the state is saved; the namespace
\* exists, so the loop does not restore it
IntrospectionEntry(ns_name, has_ip, found) ==
  LET r == namespace_port(ns_name)
  IN /\ entry.saved = {}
     /\ entry' = IF ~ r.ok \/ ~ has_ip
                  THEN Handed("introspection", ns_name, "skipped", <<>>)
                  ELSE IF ~ found
                       THEN Handed("introspection", ns_name, "no_config", <<>>)
                  ELSE Handed("introspection", ns_name, "done",
                              <<<<"save_setup_state", r.value>>>>)
     /\ EntryFrame

\* restore_all_setups with nothing saved and no namespace: the port is read
\* from the name of a configuration file; the state is saved and the tunnel
\* restored
ScanEntry(filename, valid) ==
  LET r == filename_port(filename)
  IN /\ entry.saved = {}
     /\ entry' = IF ~ r.ok \/ ~ valid
                  THEN Handed("scan", filename, "skipped", <<>>)
                  ELSE Handed("scan", filename, "done",
                              <<<<"save_setup_state", r.value>>,
                                <<"restore_setup", r.value>>>>)
     /\ EntryFrame

\* ----------------------------------------------------------- the topology
\* no operation has been run, or the operation returned before it derived
\* anything
NoTopology == [ns_name |-> <<"none">>, veth_host |-> <<"none">>, veth_ns |-> <<"none">>,
               subnet_octet |-> 0, host_ip |-> <<"none">>, ns_ip |-> <<"none">>]

\* the names and addresses an operation derives from the port it is given;
\* Unused: the operation derives no such name
Unused == <<"unused">>
Ip(subnet_octet, host) == <<10, 100, subnet_octet, host>>
LegacyIp == <<10, 200, 200, 2>>
VethName(port) == <<"veth", port>>
VpeerName(port) == <<"vpeer", port>>
LegacyVethName == <<"veth-host">>

\* create_setup (lines 2176-2184)
create_setup_topology(port) ==
  [ns_name |-> NsName(port), veth_host |-> VethName(port), veth_ns |-> VpeerName(port),
   subnet_octet |-> SubnetOctet(port),
   host_ip |-> Ip(SubnetOctet(port), 1), ns_ip |-> Ip(SubnetOctet(port), 2)]

\* restore_setup (lines 677, 690-695)
restore_setup_topology(port) ==
  [ns_name |-> NsName(port), veth_host |-> VethName(port), veth_ns |-> VpeerName(port),
   subnet_octet |-> SubnetOctet(port),
   host_ip |-> Ip(SubnetOctet(port), 1), ns_ip |-> Ip(SubnetOctet(port), 2)]

\* mutant: delete_setup takes the legacy namespace for every port
delete_setup_topology_legacy(ns_list, port) ==
  [ns_name |-> NSXRAY, veth_host |-> LegacyVethName, veth_ns |-> Unused,
   subnet_octet |-> 0, host_ip |-> Unused, ns_ip |-> LegacyIp]

\* delete_setup (lines 2678-2703): the namespace "nsxray" of the earlier shell
\* version stands in for port 9349 when ns-9349 is not there
delete_setup_topology(ns_list, port) ==
  IF NsName(port) \notin ns_list /\ port = LegacyPort /\ NSXRAY \in ns_list
  THEN [ns_name |-> NSXRAY, veth_host |-> LegacyVethName, veth_ns |-> Unused,
        subnet_octet |-> 0, host_ip |-> Unused, ns_ip |-> LegacyIp]
  ELSE [ns_name |-> NsName(port), veth_host |-> VethName(port), veth_ns |-> Unused,
        subnet_octet |-> SubnetOctet(port),
        host_ip |-> Unused, ns_ip |-> Ip(SubnetOctet(port), 2)]

\* restart_wireguard (lines 2549-2572, 2610): it returns when it finds no
\* namespace; with "nsxray" it still derives link and addresses from the port
restart_wireguard_topology(ns_list, port) ==
  IF NsName(port) \notin ns_list /\ ~ (port = LegacyPort /\ NSXRAY \in ns_list)
  THEN NoTopology
  ELSE [ns_name |-> IF NsName(port) \in ns_list THEN NsName(port) ELSE NSXRAY,
        veth_host |-> Unused, veth_ns |-> VpeerName(port),
        subnet_octet |-> SubnetOctet(port),
        host_ip |-> Ip(SubnetOctet(port), 1), ns_ip |-> Ip(SubnetOctet(port), 2)]

\* ------------------------------------------------- the handshake wait
\* for _ in range(10) ... time.sleep(2)
MaxProbes == 10
ProbeInterval == 2

NoWait == [pc |-> "menu", port |-> 0, probes |-> 0, slept |-> 0, handshake |-> FALSE,
           handshake_detected |-> FALSE, report |-> "none"]

\* the lines of `wg show <interface>`
wg_show(handshake) ==
  IF handshake THEN <<"interface", "peer", "latest handshake">>
  ELSE <<"interface", "peer">>

\* "latest handshake" in wg_status.stdout
shows_handshake(stdout) == "latest handshake" \in Range(stdout)

\* mutant: the loop does not break on a handshake
loop_ends_at_limit(probes, shown) == probes = MaxProbes

\* the loop is left after a probe: break, or range(10) is used up
loop_ends(probes, shown) == shown \/ probes = MaxProbes

WaitFrame ==
  UNCHANGED <<watchVars, lastPass, lastOp, topo, io, entry, pass, logw>>

\* restart_wireguard up to its wait (lines 2541-2627), state of the network:
\* the routes of the namespace are put back
restart_wireguard(w, port) ==
  IF NsName(port) \in w.nsList /\ w.wgLoc[port] = "ns" /\ w.nsAddr[NsName(port)] # 0
  THEN [w EXCEPT !.nsRoutes = @ \cup {port}]
  ELSE w

\* menu option 3 up to the wait: the namespace of the port (or the one of the
\* earlier shell version) and its tunnel interface are looked up, the
\* interface is taken down and up, the routes are put back
RestartWireguard(port) ==
  /\ wait.pc \in {"menu", "done"}
  /\ wait' =
       IF restart_wireguard_topology(nsList, port) = NoTopology
       THEN [NoWait EXCEPT !.pc = "done", !.port = port, !.report = "not_found"]
       ELSE IF wgLoc[port] # "ns"
       THEN [NoWait EXCEPT !.pc = "done", !.port = port, !.report = "no_interface"]
       ELSE [NoWait EXCEPT !.pc = "sleeping", !.port = port]
  /\ CommitState(IF restart_wireguard_topology(nsList, port) # NoTopology
                    /\ wgLoc[port] = "ns"
                 THEN restart_wireguard(World, port) ELSE World)
  /\ WaitFrame

\* time.sleep(2)
Sleep ==
  /\ wait.pc = "sleeping"
  /\ wait' = [wait EXCEPT !.pc = "probing", !.slept = @ + ProbeInterval]
  /\ CommitState(World) /\ WaitFrame

\* wg show, the test for "latest handshake", break
Probe ==
  /\ wait.pc = "probing"
  /\ wait' = [wait EXCEPT
                !.probes = @ + 1,
                !.handshake_detected = shows_handshake(wg_show(wait.handshake)),
                !.pc = IF loop_ends(wait.probes + 1, shows_handshake(wg_show(wait.handshake)))
                       THEN "report" ELSE "sleeping"]
  /\ CommitState(World) /\ WaitFrame

\* after the loop: one of the two messages, then the prompt of the menu
Report ==
  /\ wait.pc = "report"
  /\ wait' = [wait EXCEPT !.pc = "done",
                          !.report = IF wait.handshake_detected THEN "restarted"
                                     ELSE "no_handshake_yet"]
  /\ CommitState(World) /\ WaitFrame

\* the peer answers: the interface has a handshake from now on
Handshake ==
  /\ wait.pc \in {"sleeping", "probing"}
  /\ ~ wait.handshake
  /\ wait' = [wait EXCEPT !.handshake = TRUE]
  /\ CommitState(World) /\ WaitFrame

\* --------------------------------------------------------- the handlers
OpLog(op, port, cfg, result, fail) ==
  [op |-> op, port |-> port, cfg |-> cfg, result |-> result, fail |-> fail]

\* what a handler hands back: the state, the log of its last pass, its result
Outcome(w, log, result) == [w |-> w, log |-> log, result |-> result]

PassOutcome(p, result) == Outcome(p.w, p.log, result)

\* create_setup after a provisioning that went through (lines 2406-2430):
\* State Store record, then the proxy auto-start (ensure_xray_binary, kill on
\* the port, interactive pass)
create_setup_finish(w, prev, port, wg_config, pick) ==
  LET s1 == save_setup_state(w, port, wg_config)
      k == [s1 EXCEPT !.xrayProcs = @ \ PidsOnPort(s1, NsName(port), port)]
  IN  IF ~ ensure_xray_binary(s1) THEN Outcome(s1, prev, "ok")
      ELSE PassOutcome(refresh_uuids_for_all_namespaces(k, prev, "ui", TRUE, FALSE, pick), "ok")

\* manage_xray (lines 2445-2532): target_port 0 stands for the answer "all"
\* (manage_xray_all).  "start" kills what listens on the port in the
\* namespace, then runs the interactive pass; "stop" kills only.
manage_xray(w, prev, target_port, action, pick) ==
  LET t == delete_target(w, target_port)
      pids == PidsOnPort(w, t.ns, target_port)
      k == [w EXCEPT !.xrayProcs = @ \ pids]
  IN  IF target_port = 0
      THEN PassOutcome(refresh_uuids_for_all_namespaces(w, prev, "ui", TRUE, FALSE, pick), "all")
      ELSE IF ~ t.exists THEN Outcome(w, prev, "notfound")
      ELSE IF action = "start"
      THEN IF ~ ensure_xray_binary(w) THEN Outcome(w, prev, "nobinary")
           ELSE PassOutcome(refresh_uuids_for_all_namespaces(k, prev, "ui", TRUE, FALSE, pick),
                            "start")
      ELSE Outcome(k, prev, IF pids = {} THEN "notrunning" ELSE "stopped")

create_setup_after(r, prev, port, wg_config, pick) ==
  IF r.result # "ok" THEN Outcome(r.w, prev, r.result)
  ELSE create_setup_finish(r.w, prev, port, wg_config, pick)

\* create_setup, whole
create_setup(w, prev, port, wg_config, resolved, fail, pick) ==
  create_setup_after(create_setup_net(w, port, resolved, fail), prev, port, wg_config, pick)

\* restore_setup after its provisioning (lines 806-813): the forced pass that
\* follows a successful provisioning
restore_setup_after(r, prev) ==
  IF r.result # "ok" THEN Outcome(r.w, prev, r.result)
  ELSE IF ~ ensure_xray_binary(r.w) THEN Outcome(r.w, prev, "ok")
  ELSE PassOutcome(refresh_uuids_for_all_namespaces(r.w, prev, "ui", FALSE, TRUE, FALSE), "ok")

\* restore_setup, whole: True ("exists", "ok") or False
restore_setup(w, prev, port, resolved, fail) ==
  restore_setup_after(restore_setup_net(w, port, resolved, fail), prev)

\* restore_from_config_file: a successful restore is saved
SaveIfRestored(r, port, wg_config) ==
  IF r.result \in {"ok", "exists"}
  THEN Outcome(save_setup_state(r.w, port, wg_config), r.log, r.result)
  ELSE r

\* restore_from_config_file after the prompts: an existing namespace is either
\* kept (the call is cancelled) or deleted first
restore_from_config_file(w, prev, port, wg_config, recreate, resolved, fail) ==
  IF NsName(port) \in w.nsList /\ ~ recreate THEN Outcome(w, prev, "cancelled")
  ELSE SaveIfRestored(
         restore_setup(IF NsName(port) \in w.nsList THEN delete_setup(w, port) ELSE w,
                       prev, port, resolved, fail),
         port, wg_config)

\* find_wg_config_for_port: a file of the searched directories whose name
\* carries the port, "none" when there is none
find_wg_config_for_port(w, port) ==
  IF \E c \in w.cfgFiles : ConfigPort[c] = port
  THEN CHOOSE c \in w.cfgFiles : ConfigPort[c] = port
  ELSE "none"

\* scan_wg_config_files: every file of the searched directories with digits
\* in its name, with the port these digits spell
scan_wg_config_files(w) == {<<ConfigPort[c], c>> : c \in {x \in w.cfgFiles : ConfigPort[x] # 0}}

detect_existing_tunnels_merged(w) ==
  {<<q, find_wg_config_for_port(w, q)>> :
     q \in {n \in Ports : NsName(n) \in w.nsList /\ w.nsAddr[NsName(n)] # 0}}
  \cup scan_wg_config_files(w)

\* detect_existing_tunnels: the managed namespaces that have a 10.100 address,
\* each with the config find_wg_config_for_port finds for its port ("none"
\* when it finds nothing), or, when there is no such namespace, the pairs
\* scan_wg_config_files reads off the config directories
detect_existing_tunnels(w) ==
  LET fromNs == {<<q, find_wg_config_for_port(w, q)>> :
                   q \in {n \in Ports : /\ NsName(n) \in w.nsList
                                        /\ w.nsAddr[NsName(n)] # 0}}
  IN  IF fromNs # {} THEN fromNs ELSE scan_wg_config_files(w)

\* the loop of restore_all_setups that saves what was detected
SaveDetected(w, detected) ==
  LET ok == {d \in detected : d[2] \in w.cfgFiles}
  IN  [w EXCEPT !.stateFiles =
         [n \in Ports |-> IF \E d \in ok : d[1] = n
                          THEN [port |-> n, cfg |-> (CHOOSE d \in ok : d[1] = n)[2]]
                          ELSE @[n]]]

\* one restore of the loop: counted when restore_setup returned True
Counted(st, r) ==
  [w |-> r.w, log |-> r.log,
   count |-> st.count + (IF r.result \in {"ok", "exists"} THEN 1 ELSE 0)]

\* the position of port q in the order the State Store lists its files
Position(order, q) == CHOOSE i \in 1..Len(order) : order[i] = q

\* the restore loop of restore_all_setups, in the order os.listdir gives: a
\* tunnel whose namespace exists or whose config file is missing is skipped, a
\* restore that raises is caught; the step `fail` fails for the port failPort
RECURSIVE RestoreEach(_, _, _, _, _, _)
RestoreEach(st, todo, order, resolved, failPort, fail) ==
  IF todo = {} THEN st
  ELSE LET t == CHOOSE x \in todo :
                  \A y \in todo : Position(order, x[1]) <= Position(order, y[1])
       IN  IF NsName(t[1]) \in st.w.nsList \/ t[2] \notin st.w.cfgFiles
           THEN RestoreEach(st, todo \ {t}, order, resolved, failPort, fail)
           ELSE RestoreEach(
                  Counted(st, restore_setup(st.w, st.log, t[1], resolved,
                                            IF t[1] = failPort THEN fail ELSE "none")),
                  todo \ {t}, order, resolved, failPort, fail)

\* the tunnels restore_all_setups works on: the State Store, else what
\* detection finds and saves
TunnelsToRestore(l1) ==
  IF l1.tunnels # {} THEN l1
  ELSE load_all_setup_states(SaveDetected(l1.w, detect_existing_tunnels(l1.w)))

\* the end of restore_all_setups (lines 1010-1019): the forced pass when a
\* panel database is known
restore_all_finish(st) ==
  LET w3 == load_panel_state(st.w, "ui")
      res == IF st.count > 0 THEN "restored" ELSE "none_restored"
  IN  IF isfile(w3, w3.PANEL_DB_PATH["ui"])
      THEN PassOutcome(refresh_uuids_for_all_namespaces(w3, st.log, "ui", FALSE, TRUE, FALSE), res)
      ELSE Outcome(w3, st.log, res)

restore_all_loop(l2, prev, order, resolved, failPort, fail) ==
  IF l2.tunnels = {} THEN Outcome(l2.w, prev, "nothing")
  ELSE restore_all_finish(RestoreEach([w |-> l2.w, log |-> prev, count |-> 0],
                                      l2.tunnels, order, resolved, failPort, fail))

\* restore_all_setups, whole
restore_all_setups(w, prev, order, resolved, failPort, fail) ==
  restore_all_loop(TunnelsToRestore(load_all_setup_states(w)),
                   prev, order, resolved, failPort, fail)

\* --------------------------------------------------------------- actions
\* the state and the logs after a handler (an action computes its handler
\* once: \E r \in {handler})
Apply(r, op, port, cfg, fail) ==
  /\ Commit(r.w)
  /\ lastPass' = r.log
  /\ lastOp' = OpLog(op, port, cfg, r.result, fail)

ApplyPass(r) ==
  /\ Commit(r.w)
  /\ lastPass' = r.log
  /\ UNCHANGED lastOp

CreateSetup(port, wg_config, resolved, fail, pick) ==
  /\ wg_config \in cfgFiles
  /\ \E r \in {create_setup(World, lastPass, port, wg_config, resolved, fail, pick)} :
        Apply(r, "create", port, wg_config, fail)

\* delete_setup: "deleted" when it found a namespace to delete, "cleaned" when
\* it printed "Namespace not found, but cleaning up orphaned iptables rules"
DeleteSetup(port) ==
  /\ \E w \in {delete_setup(World, port)} : Commit(w)
  /\ lastOp' = OpLog("delete", port, "none",
                     IF delete_target(World, port).exists THEN "deleted" ELSE "cleaned",
                     "none")
  /\ UNCHANGED lastPass

RestoreFromConfigFile(port, wg_config, recreate, resolved, fail) ==
  /\ wg_config \in cfgFiles
  /\ \E r \in {restore_from_config_file(World, lastPass, port, wg_config, recreate,
                                         resolved, fail)} :
        Apply(r, "restore", port, wg_config, fail)

\* debug_setup with real-time logging, the process killed while it follows the
\* kernel log: the LOG rules stay behind
LoggingKilled(port) ==
  /\ LogDnatRule(port) \notin logRules
  /\ \E w \in {AddLogRules(World, port)} : Commit(w)
  /\ lastOp' = OpLog("debug", port, "none", "killed", "none")
  /\ UNCHANGED lastPass

\* menu option 6 (or --restore): restore_all_setups
RestoreAllSetups(order, resolved, failPort, fail) ==
  \E r \in {restore_all_setups(World, lastPass, order, resolved, failPort, fail)} :
     Apply(r, "restore_all", failPort, "none", fail)

\* restore_setup(port, wg_config_path), as restore_all_setups and
\* restore_from_config_file call it
RestoreSetup(port, wg_config, resolved, fail) ==
  /\ wg_config \in cfgFiles
  /\ \E r \in {restore_setup(World, lastPass, port, resolved, fail)} :
        Apply(r, "restore_setup", port, wg_config, fail)

\* the host reboots: namespaces, links, rules and processes are gone, files stay
Reboot ==
  /\ nsList # {}
  /\ \E w \in {[World EXCEPT !.nsList = {},
                              !.nsAddr = [n \in Namespaces |-> 0],
                              !.vethHost = [v \in Links |-> "none"],
                              !.wgLoc = [q \in Ports |-> "none"],
                              !.nsRoutes = {},
                              !.dnat = <<>>, !.masq = <<>>, !.fwd = <<>>,
                              !.logRules = {},
                              !.xrayProcs = {},
                              !.LAST_UUID_HASH = [p \in Procs |-> None],
                              !.PANEL_DB_PATH = [p \in Procs |-> NoPath]]} : Commit(w)
  /\ lastOp' = OpLog("env", 0, "none", "none", "none")
  /\ UNCHANGED lastPass

\* one tick of the polling loop, in the thread of the menu process ("ui") or in
\* the supervised --auto-refresh process ("svc")
WatcherTick(proc) ==
  \E r \in {refresh_uuids_for_all_namespaces_noninteractive(World, lastPass, proc)} :
     ApplyPass(r)

\* manage_xray_all: the interactive pass of the menu
ManageXrayAll(pick) ==
  \E r \in {refresh_uuids_for_all_namespaces(World, lastPass, "ui", TRUE, FALSE, pick)} :
     ApplyPass(r)

\* menu option 2: manage_xray for one port or for "all"
ManageXray(target_port, action, pick) ==
  \E r \in {manage_xray(World, lastPass, target_port, action, pick)} :
     Apply(r, "manage_xray", target_port, "none", "none")

\* a process starts: its globals are unset, then load_panel_state() runs
ProcessStart(proc) ==
  /\ LAST_UUID_HASH' = [LAST_UUID_HASH EXCEPT ![proc] = None]
  /\ PANEL_DB_PATH' = load_panel_state([World EXCEPT !.PANEL_DB_PATH[proc] = NoPath],
                                       proc).PANEL_DB_PATH
  /\ \/ LAST_UUID_HASH[proc] # None
     \/ PANEL_DB_PATH'[proc] # PANEL_DB_PATH[proc]
  /\ UNCHANGED <<netVars, storeVars, srcVars, configSaved, panelSaved, hashFile, mtimeFile,
                 uuidFile, xrayConf, xrayProcs, xrayBin, lastPass, lastOp>>
  /\ UNCHANGED <<watchVars, unitVars>>

\* ------------------------------------------------------------ the watcher
\* ensure_uuid_watcher_service: True when systemctl reports the service active
\* or starts it; False when the service cannot be set up or started
ensure_uuid_watcher_service_unused(works, active) == [ok |-> FALSE, active |-> active]

ensure_uuid_watcher_service(works, active) == [ok |-> works, active |-> active \/ works]

\* a process starts: its globals are unset, then load_panel_state() runs
process_start(w, proc) ==
  load_panel_state([w EXCEPT !.PANEL_DB_PATH[proc] = NoPath,
                             !.LAST_UUID_HASH[proc] = None], proc)

\* what ensure_uuid_watcher_service with result e leaves: a service that was
\* started runs auto_refresh_main in process svc
EnsureService(w, e) ==
  /\ serviceActive' = e.active
  /\ loopPc' = IF e.active /\ ~ serviceActive THEN [loopPc EXCEPT !["svc"] = "tick"]
               ELSE loopPc
  /\ CommitWorld(IF e.active /\ ~ serviceActive THEN process_start(w, "svc") ELSE w)

\* start_background_uuid_watcher called in thread c of the menu process: the
\* service if it can be had, else start_uuid_watcher
StartBackgroundUuidWatcher(c) ==
  /\ callerPc[c] = "idle"
  /\ \E e \in {ensure_uuid_watcher_service(supervisor, serviceActive)} :
        /\ EnsureService(World, e)
        /\ callerPc' = IF e.ok THEN callerPc ELSE [callerPc EXCEPT ![c] = "lock"]
        /\ lastOp' = OpLog("start_watcher", 0, "none",
                           IF e.ok THEN "service" ELSE "thread", "none")
  /\ UNCHANGED <<UUID_WATCHER_STARTED, UUID_WATCHER_LOCK, threads, supervisor, fallbacks,
                 consecutive_errors, lastTick, lastPass>>

\* manage_xray_all in thread c: the interactive pass; when it prompts for the
\* panel and the operator picks an existing database, choose_uuids_from_panel
\* persists the choice and calls start_background_uuid_watcher
ManageXrayAllWatched(c, pick) ==
  /\ callerPc[c] = "idle"
  /\ \E r \in {refresh_uuids_for_all_namespaces(World, lastPass, "ui", TRUE, FALSE, pick)} :
        /\ lastPass' = r.log
        /\ IF ~ isfile(World, PANEL_DB_PATH["ui"]) /\ pick /\ dbExists
           THEN \E e \in {ensure_uuid_watcher_service(supervisor, serviceActive)} :
                   /\ EnsureService(r.w, e)
                   /\ callerPc' = IF e.ok THEN callerPc ELSE [callerPc EXCEPT ![c] = "lock"]
           ELSE /\ CommitWorld(r.w)
                /\ UNCHANGED <<serviceActive, loopPc, callerPc>>
  /\ UNCHANGED <<UUID_WATCHER_STARTED, UUID_WATCHER_LOCK, threads, supervisor, fallbacks,
                 consecutive_errors, lastTick, lastOp>>

\* --start-watcher: the service if it can be had, else a detached
\* --auto-refresh process
StartWatcherCli ==
  /\ \E e \in {ensure_uuid_watcher_service(supervisor, serviceActive)} :
        /\ e.ok \/ fallbacks < MaxFallbacks
        /\ EnsureService(World, e)
        /\ fallbacks' = IF e.ok THEN fallbacks ELSE fallbacks + 1
        /\ lastOp' = OpLog("start_watcher_cli", 0, "none",
                           IF e.ok THEN "service" ELSE "fallback", "none")
  /\ UNCHANGED <<UUID_WATCHER_STARTED, UUID_WATCHER_LOCK, callerPc, threads, supervisor,
                 consecutive_errors, lastTick, lastPass>>

\* with UUID_WATCHER_LOCK: the lock can be taken when nobody holds it
AcquirableAlways(lock) == TRUE

Acquirable(lock) == lock = "free"

WatcherStep ==
  /\ CommitWorld(World)
  /\ UNCHANGED <<supervisor, serviceActive, fallbacks, lastTick, lastPass, lastOp>>

\* start_uuid_watcher, step by step: enter the with block
AcquireLock(c) ==
  /\ callerPc[c] = "lock"
  /\ Acquirable(UUID_WATCHER_LOCK)
  /\ UUID_WATCHER_LOCK' = c
  /\ callerPc' = [callerPc EXCEPT ![c] = "test"]
  /\ WatcherStep
  /\ UNCHANGED <<UUID_WATCHER_STARTED, threads, loopPc, consecutive_errors>>

\* if UUID_WATCHER_STARTED: return (which leaves the with block)
TestStarted(c) ==
  /\ callerPc[c] = "test"
  /\ callerPc' = [callerPc EXCEPT ![c] = IF UUID_WATCHER_STARTED THEN "idle" ELSE "set"]
  /\ UUID_WATCHER_LOCK' = IF UUID_WATCHER_STARTED THEN "free" ELSE UUID_WATCHER_LOCK
  /\ WatcherStep
  /\ UNCHANGED <<UUID_WATCHER_STARTED, threads, loopPc, consecutive_errors>>

\* UUID_WATCHER_STARTED = True, and the with block ends
SetStarted(c) ==
  /\ callerPc[c] = "set"
  /\ UUID_WATCHER_STARTED' = TRUE
  /\ UUID_WATCHER_LOCK' = "free"
  /\ callerPc' = [callerPc EXCEPT ![c] = "start"]
  /\ WatcherStep
  /\ UNCHANGED <<threads, loopPc, consecutive_errors>>

\* threading.Thread(target=_loop, daemon=True).start()
StartThread(c) ==
  /\ callerPc[c] = "start"
  /\ threads' = threads + 1
  /\ loopPc' = [loopPc EXCEPT !["ui"] = "tick"]
  /\ consecutive_errors' = 0
  /\ callerPc' = [callerPc EXCEPT ![c] = "idle"]
  /\ WatcherStep
  /\ UNCHANGED <<UUID_WATCHER_STARTED, UUID_WATCHER_LOCK>>

\* what a tick can raise: nothing; an exception inside
\* refresh_uuids_for_all_namespaces ("pass"); an exception of the wrapper
\* outside its try block ("wrapper"); KeyboardInterrupt ("interrupt")
Raises == {"none", "pass", "wrapper", "interrupt"}

\* the wrapper up to its call of the pass
wrapper_load(w, proc) ==
  IF w.PANEL_DB_PATH[proc] = NoPath THEN load_panel_state(w, proc) ELSE w

\* the pass is entered and gets as far as listing the namespaces
PassListsNamespaces(w, proc) ==
  /\ isfile(wrapper_load(w, proc), wrapper_load(w, proc).PANEL_DB_PATH[proc])
  /\ extract_uuids_from_sqlite(w) # <<>>

\* the pass when run_cmd raises at the listing of the namespaces: marker and
\* hash are recorded, no namespace is looked at
refresh_raising(w, prev, proc) ==
  LET r == refresh_uuids_for_all_namespaces([w EXCEPT !.nsList = {}], prev, proc,
                                            FALSE, FALSE, FALSE)
  IN  [r EXCEPT !.w.nsList = w.nsList]

\* one call of refresh_uuids_for_all_namespaces_noninteractive by a loop
tick(w, prev, proc, raises) ==
  IF raises = "none" THEN refresh_uuids_for_all_namespaces_noninteractive(w, prev, proc)
  ELSE IF raises = "pass" THEN refresh_raising(wrapper_load(w, proc), prev, proc)
  ELSE [w |-> w, log |-> prev]

\* the exception the loop gets to see: the wrapper catches and logs every
\* Exception of the pass
Seen(raises) == IF raises = "pass" THEN "none" ELSE raises

\* the loop after a tick: `break` (or the end of the process) on
\* KeyboardInterrupt, the sleep otherwise
after_tick_stopping(seen) == IF seen = "none" THEN "sleep" ELSE "stopped"

after_tick(seen) == IF seen = "interrupt" THEN "stopped" ELSE "sleep"

\* the thread loop of start_uuid_watcher: counter and sleep (in intervals)
\* after a tick
thread_errors(seen, errors) ==
  IF seen = "wrapper" /\ errors + 1 < max_consecutive_errors THEN errors + 1
  ELSE IF seen = "interrupt" THEN errors
  ELSE 0

thread_sleep(seen, errors) ==
  IF seen = "interrupt" THEN 0
  ELSE IF seen = "wrapper" /\ errors + 1 >= max_consecutive_errors THEN 2
  ELSE 1

\* one iteration of `while True` of the thread loop (proc = "ui") or of
\* auto_refresh_main (proc = "svc"), up to its sleep
LoopTick(proc, raises) ==
  /\ loopPc[proc] = "tick"
  /\ raises = "pass" => PassListsNamespaces(World, proc)
  /\ \E r \in {tick(World, lastPass, proc, raises)} :
        /\ CommitWorld(r.w)
        /\ lastPass' = r.log
  /\ loopPc' = [loopPc EXCEPT ![proc] = after_tick(Seen(raises))]
  /\ consecutive_errors' = IF proc = "ui"
                           THEN thread_errors(Seen(raises), consecutive_errors)
                           ELSE consecutive_errors
  /\ serviceActive' = IF proc = "svc" /\ after_tick(Seen(raises)) = "stopped"
                      THEN FALSE ELSE serviceActive
  /\ lastTick' = [proc |-> proc, raises |-> raises,
                  slept |-> IF proc = "ui" THEN thread_sleep(Seen(raises), consecutive_errors)
                            ELSE IF Seen(raises) = "interrupt" THEN 0 ELSE 1,
                  errors |-> IF proc = "ui" THEN consecutive_errors' ELSE 0]
  /\ UNCHANGED <<UUID_WATCHER_STARTED, UUID_WATCHER_LOCK, callerPc, threads, supervisor,
                 fallbacks, lastOp>>

\* time.sleep returns
LoopWake(proc) ==
  /\ loopPc[proc] = "sleep"
  /\ loopPc' = [loopPc EXCEPT ![proc] = "tick"]
  /\ CommitWorld(World)
  /\ UNCHANGED <<UUID_WATCHER_STARTED, UUID_WATCHER_LOCK, callerPc, threads, supervisor,
                 serviceActive, fallbacks, consecutive_errors, lastTick, lastPass, lastOp>>

\* Restart=always: systemd starts the service again after its process ended
SupervisorRestart ==
  /\ supervisor
  /\ loopPc["svc"] = "stopped"
  /\ loopPc' = [loopPc EXCEPT !["svc"] = "tick"]
  /\ serviceActive' = TRUE
  /\ CommitWorld(process_start(World, "svc"))
  /\ UNCHANGED <<UUID_WATCHER_STARTED, UUID_WATCHER_LOCK, callerPc, threads, supervisor,
                 fallbacks, consecutive_errors, lastTick, lastPass, lastOp>>

\* ------------------------------------------------ the marzban log watcher
\* lines of `marzban logs` kept by the model
MaxLines == 3
PanelNames == {"x-ui", "marzban"}
LogLines == {"new_user_added", "other"}

NoLogWatcher == [PANEL_PANEL_NAME |-> "none", MARZBAN_LOG_WATCHER_STARTED |-> FALSE,
                 marzban_cli |-> FALSE, threads |-> 0, lines |-> <<>>]

\* command_exists("marzban")
command_exists_marzban(l) == l.marzban_cli

\* start_marzban_log_watcher: the flag is set and _loop is defined; no thread
\* is created for _loop and _loop is not called
start_marzban_log_watcher(l) ==
  IF l.MARZBAN_LOG_WATCHER_STARTED THEN l
  ELSE IF l.PANEL_PANEL_NAME # "marzban" THEN l
  ELSE IF ~ command_exists_marzban(l) THEN l
  ELSE [l EXCEPT !.MARZBAN_LOG_WATCHER_STARTED = TRUE]

LogFrame ==
  CommitState(World) /\ UNCHANGED <<watchVars, lastPass, lastOp, topo, io, entry, wait, pass>>

\* choose_uuids_from_panel, as far as the log watcher goes: the operator picks
\* the panel and a database file that exists, the name is kept, and for
\* marzban start_marzban_log_watcher runs
ChoosePanel(panel_name) ==
  /\ logw' = IF ~ dbExists THEN logw
             ELSE IF panel_name = "marzban"
             THEN start_marzban_log_watcher([logw EXCEPT !.PANEL_PANEL_NAME = panel_name])
             ELSE [logw EXCEPT !.PANEL_PANEL_NAME = panel_name]
  /\ LogFrame

\* the operator installs or removes the marzban CLI
MarzbanCli(present) ==
  /\ logw.marzban_cli # present
  /\ logw' = [logw EXCEPT !.marzban_cli = present]
  /\ LogFrame

\* the panel logs a line
MarzbanLogs(line) ==
  /\ Len(logw.lines) < MaxLines
  /\ logw' = [logw EXCEPT !.lines = Append(@, line)]
  /\ LogFrame

\* ------------------------------------------------ the pass, step by step
\* refresh_uuids_for_all_namespaces in two processes at once (the watcher
\* ticks in "svc", the operator runs the interactive pass in "ui"): each
\* access to the files the two share is a step; the loop over the namespaces
\* is one step
NoLocals == [pc |-> "idle", current_db_mtime |-> 0, db_file_changed |-> FALSE,
             uuids |-> <<>>, old_hash |-> None, from |-> "none", uuids_changed |-> FALSE]
NoRace == [of |-> [p \in Procs |-> NoLocals], launches |-> NoLaunches]

PassFrame == UNCHANGED <<watchVars, lastPass, lastOp, topo, io, entry, wait, logw>>

\* lines 1271-1291: db_path, get_db_mtime, load_last_db_mtime, db_file_changed
PassCheckMtime(proc) ==
  /\ pass.of[proc].pc = "idle"
  /\ LET wA == IF isfile(World, PANEL_DB_PATH[proc]) THEN World
               ELSE IF proc = "ui" THEN choose_uuids_from_panel(World, proc, TRUE)
               ELSE load_panel_state(World, proc)
         current_db_mtime == get_db_mtime(wA)
         last_db_mtime == load_last_db_mtime(wA)
         db_file_changed == last_db_mtime = 0 \/ current_db_mtime # last_db_mtime
     IN  /\ CommitState(wA)
         /\ pass' = [pass EXCEPT !.of[proc] =
                        IF ~ isfile(wA, wA.PANEL_DB_PATH[proc]) THEN [@ EXCEPT !.pc = "done"]
                        ELSE [@ EXCEPT !.pc = IF db_file_changed THEN "clear" ELSE "extract",
                                       !.current_db_mtime = current_db_mtime,
                                       !.db_file_changed = db_file_changed]]
  /\ PassFrame

\* line 1296: save_last_uuid_hash("")
PassClearHash(proc) ==
  /\ pass.of[proc].pc = "clear"
  /\ CommitState([World EXCEPT !.hashFile = EmptyString])
  /\ pass' = [pass EXCEPT !.of[proc].pc = "extract"]
  /\ PassFrame

\* lines 1298-1301: extract_uuids_from_sqlite
PassExtract(proc) ==
  /\ pass.of[proc].pc = "extract"
  /\ CommitState(World)
  /\ pass' = [pass EXCEPT !.of[proc] =
                 [@ EXCEPT !.uuids = extract_uuids_from_sqlite(World),
                           !.pc = IF extract_uuids_from_sqlite(World) = <<>> THEN "done"
                                  ELSE "load"]]
  /\ PassFrame

\* lines 1304-1316: load_last_uuid_hash, old_hash, LAST_UUID_HASH
PassLoadHash(proc) ==
  /\ pass.of[proc].pc = "load"
  /\ CommitState([World EXCEPT !.LAST_UUID_HASH[proc] = get_uuids_hash(pass.of[proc].uuids)])
  /\ pass' = [pass EXCEPT !.of[proc] =
                 [@ EXCEPT !.old_hash = old_hash_of(World, proc),
                           !.from = IF LAST_UUID_HASH[proc] # None THEN "memory"
                                    ELSE IF old_hash_of(World, proc) # None THEN "file"
                                    ELSE "none",
                           !.pc = "save_hash"]]
  /\ PassFrame

\* line 1319: save_last_uuid_hash(current_uuid_hash)
PassSaveHash(proc) ==
  /\ pass.of[proc].pc = "save_hash"
  /\ CommitState([World EXCEPT !.hashFile = get_uuids_hash(pass.of[proc].uuids)])
  /\ pass' = [pass EXCEPT !.of[proc].pc = "save_mtime"]
  /\ PassFrame

\* lines 1320-1321: save_last_db_mtime(current_db_mtime)
PassSaveMtime(proc) ==
  /\ pass.of[proc].pc = "save_mtime"
  /\ CommitState([World EXCEPT !.mtimeFile = IF pass.of[proc].current_db_mtime # 0
                                              THEN pass.of[proc].current_db_mtime ELSE @])
  /\ pass' = [pass EXCEPT !.of[proc].pc = "sync"]
  /\ PassFrame

\* lines 1328-1438: uuids_changed and the branch it selects
PassSync(proc) ==
  /\ pass.of[proc].pc = "sync"
  /\ LET l == pass.of[proc]
         changed == uuids_changed(l.old_hash, get_uuids_hash(l.uuids), l.db_file_changed, FALSE)
         st == [w |-> World, log |-> PassLog(lastPass, proc, FALSE, "none")]
         namespaces == ManagedNamespaces(World)
         r == IF ~ changed THEN ForEachNamespace(st, namespaces, l.uuids, FALSE)
              ELSE IF namespaces = {} THEN st
              ELSE ForEachNamespace(st, namespaces, l.uuids, TRUE)
     IN  /\ CommitState(r.w)
         /\ pass' = [pass EXCEPT !.of[proc].pc = "done",
                                 !.of[proc].uuids_changed = changed,
                                 !.launches = [ns \in Namespaces |-> @[ns] + r.log.launches[ns]]]
  /\ PassFrame

\* the panel writes its database while no pass runs: the passes that follow
\* are the watcher's and the operator's first after that change
SourceChanges(u, bump) ==
  /\ \A proc \in Procs : pass.of[proc].pc \in {"idle", "done"}
  /\ dbExists
  /\ bump => dbMtime < MaxMtime
  /\ bump \/ u # dbUuids
  /\ dbUuids' = u
  /\ dbTables' = TablesOf(u)
  /\ dbMtime' = IF bump THEN dbMtime + 1 ELSE dbMtime
  /\ lastPass' = [lastPass EXCEPT !.srcSame = FALSE]
  /\ pass' = NoRace
  /\ UNCHANGED <<netVars, storeVars, dbExists, syncVars, lastOp>>
  /\ UNCHANGED <<watchVars, topo, io, entry, wait, logw>>

\* --- the environment
\* the panel writes its database: new content, with or without a new
\* modification time (a write-ahead log leaves the main file untouched)
SourceWrite(u, bump) ==
  /\ dbExists
  /\ bump => dbMtime < MaxMtime
  /\ bump \/ u # dbUuids
  /\ dbUuids' = u
  /\ dbTables' = TablesOf(u)
  /\ dbMtime' = IF bump THEN dbMtime + 1 ELSE dbMtime
  /\ lastPass' = [lastPass EXCEPT !.srcSame = FALSE]
  /\ UNCHANGED <<netVars, storeVars, dbExists, syncVars, lastOp>>
  /\ UNCHANGED <<watchVars, unitVars>>

\* the panel writes its database, seen at the level of its tables
PanelWrites(t, bump) ==
  /\ dbExists
  /\ bump => dbMtime < MaxMtime
  /\ bump \/ t # dbTables
  /\ dbTables' = t
  /\ dbUuids' = extract_uuids_from_rows(t)
  /\ dbMtime' = IF bump THEN dbMtime + 1 ELSE dbMtime
  /\ lastPass' = [lastPass EXCEPT !.srcSame = FALSE]
  /\ UNCHANGED <<netVars, storeVars, dbExists, syncVars, lastOp>>
  /\ UNCHANGED <<watchVars, unitVars>>

\* the panel database comes into existence
SourceCreated(u) ==
  /\ ~ dbExists
  /\ dbExists' = TRUE
  /\ dbUuids' = u
  /\ dbTables' = TablesOf(u)
  /\ lastPass' = [lastPass EXCEPT !.srcSame = FALSE]
  /\ UNCHANGED <<netVars, storeVars, dbMtime, syncVars, lastOp>>
  /\ UNCHANGED <<watchVars, unitVars>>

\* setup_wizard: the operator names the panel and the path of its database,
\* which need not exist; both go to config.json and to the panel state file
PanelConfigured(db_path) ==
  /\ configSaved # db_path
  /\ configSaved' = db_path
  /\ panelSaved' = db_path
  /\ PANEL_DB_PATH' = [PANEL_DB_PATH EXCEPT !["ui"] = db_path]
  /\ UNCHANGED <<netVars, storeVars, srcVars, LAST_UUID_HASH, hashFile, mtimeFile,
                 uuidFile, xrayConf, xrayProcs, xrayBin, lastPass, lastOp>>
  /\ UNCHANGED <<watchVars, unitVars>>

\* the proxy binary becomes installable
XrayAvailable ==
  /\ ~ xrayBin
  /\ xrayBin' = TRUE
  /\ UNCHANGED <<netVars, storeVars, srcVars, configSaved, panelSaved, PANEL_DB_PATH,
                 LAST_UUID_HASH, hashFile, mtimeFile, uuidFile, xrayConf, xrayProcs,
                 lastPass, lastOp>>
  /\ UNCHANGED <<watchVars, unitVars>>

\* what lastOp holds after a change the program did not make
EnvOp == OpLog("env", 0, "none", "none", "none")

\* the operator creates or removes a tunnel configuration file
ConfigFileWritten(c) ==
  /\ c \notin cfgFiles
  /\ cfgFiles' = cfgFiles \cup {c}
  /\ lastOp' = EnvOp
  /\ UNCHANGED <<netVars, stateFiles, srcVars, syncVars, lastPass>>
  /\ UNCHANGED <<watchVars, unitVars>>

ConfigFileRemoved(c) ==
  /\ c \in cfgFiles
  /\ cfgFiles' = cfgFiles \ {c}
  /\ lastOp' = EnvOp
  /\ UNCHANGED <<netVars, stateFiles, srcVars, syncVars, lastPass>>
  /\ UNCHANGED <<watchVars, unitVars>>

\* a namespace is removed behind the program's back (its rules are orphaned)
ExternalNetnsDelete(port) ==
  /\ NsName(port) \in nsList
  /\ \E w \in {NetnsDelete(World, NsName(port))} : Commit(w)
  /\ lastOp' = EnvOp
  /\ UNCHANGED lastPass

\* ------------------------------------------------------------------ Init
NoPass == [seq |-> 0, proc |-> "ui", force |-> FALSE, phase |-> "none",
           from |-> "none", srcSame |-> FALSE, fileChanged |-> FALSE, changed |-> FALSE,
           kills |-> {}, launches |-> NoLaunches]

NoOp == OpLog("none", 0, "none", "none", "none")

LegacyDnat == <<DnatRule("tcp", LegacyPort, LegacyOct), DnatRule("udp", LegacyPort, LegacyOct)>>

\* a host with no tunnel of this program and no run of the pass yet; legacy:
\* the namespace "nsxray" of the earlier shell version is present with its
\* link and rules; db, u: the panel database exists and holds u; saved: a
\* panel is configured; bin: the proxy binary can be had; cfgs: config files
InitWorld(legacy, db, u, saved, bin, cfgs) ==
  [nsList |-> IF legacy THEN {NSXRAY} ELSE {},
   nsAddr |-> [n \in Namespaces |-> 0],
   vethHost |-> [v \in Links |-> IF legacy /\ v = LegacyVeth THEN "ok" ELSE "none"],
   wgLoc |-> [q \in Ports |-> "none"],
   nsRoutes |-> {},
   dnat |-> IF legacy THEN LegacyDnat ELSE <<>>,
   masq |-> IF legacy THEN <<MasqRule(LegacyOct, LegacyVeth)>> ELSE <<>>,
   fwd |-> <<>>,
   logRules |-> {},
   dnsOverride |-> {},
   stateFiles |-> [n \in Ports |-> NoRecord],
   cfgFiles |-> cfgs,
   dbExists |-> db,
   dbMtime |-> 1,
   dbUuids |-> u,
   configSaved |-> IF saved THEN DbPath ELSE NoPath,
   panelSaved |-> IF saved THEN DbPath ELSE NoPath,
   PANEL_DB_PATH |-> [p \in Procs |-> IF saved THEN DbPath ELSE NoPath],
   LAST_UUID_HASH |-> [p \in Procs |-> None],
   hashFile |-> None,
   mtimeFile |-> 0,
   uuidFile |-> [q \in Ports |-> Absent],
   xrayConf |-> [q \in Ports |-> Absent],
   xrayProcs |-> {},
   xrayBin |-> bin]

\* the host after create_setup has run for each <<port, failing step>> of ops
RECURSIVE Provisioned(_, _)
Provisioned(w, ops) ==
  IF ops = <<>> THEN w
  ELSE Provisioned(create_setup(w, NoPass, Head(ops)[1], "c1", TRUE, Head(ops)[2], FALSE).w,
                   Tail(ops))

InstallState(w, t) ==
  /\ nsList = w.nsList
  /\ nsAddr = w.nsAddr
  /\ vethHost = w.vethHost
  /\ wgLoc = w.wgLoc
  /\ nsRoutes = w.nsRoutes
  /\ dnat = w.dnat
  /\ masq = w.masq
  /\ fwd = w.fwd
  /\ logRules = w.logRules
  /\ dnsOverride = w.dnsOverride
  /\ stateFiles = w.stateFiles
  /\ cfgFiles = w.cfgFiles
  /\ dbExists = w.dbExists
  /\ dbMtime = w.dbMtime
  /\ dbUuids = w.dbUuids
  /\ dbTables = t
  /\ configSaved = w.configSaved
  /\ panelSaved = w.panelSaved
  /\ PANEL_DB_PATH = w.PANEL_DB_PATH
  /\ LAST_UUID_HASH = w.LAST_UUID_HASH
  /\ hashFile = w.hashFile
  /\ mtimeFile = w.mtimeFile
  /\ uuidFile = w.uuidFile
  /\ xrayConf = w.xrayConf
  /\ xrayProcs = w.xrayProcs
  /\ xrayBin = w.xrayBin
  /\ lastPass = NoPass
  /\ lastOp = NoOp

\* no operation has been run on a port yet
InstallUnits ==
  /\ topo = [port |-> 0, op |-> "none", t |-> NoTopology]
  /\ io = NoIo
  /\ entry = NoEntry
  /\ wait = NoWait
  /\ pass = NoRace
  /\ logw = NoLogWatcher

InstallTables(w, t) == InstallState(w, t) /\ InstallUnits

InstallWorld(w) == InstallTables(w, TablesOf(w.dbUuids))

\* the watcher before anything started it; works: systemctl can start the
\* service; active: the service already runs
NoTick == [proc |-> "none", raises |-> "none", slept |-> 0, errors |-> 0]

InstallWatcher(works, active) ==
  /\ UUID_WATCHER_STARTED = FALSE
  /\ UUID_WATCHER_LOCK = "free"
  /\ callerPc = [c \in Callers |-> "idle"]
  /\ threads = 0
  /\ supervisor = works
  /\ serviceActive = active
  /\ fallbacks = 0
  /\ loopPc = [p \in Procs |-> IF p = "svc" /\ active THEN "tick" ELSE "off"]
  /\ consecutive_errors = 0
  /\ lastTick = NoTick

Install(w) == InstallWorld(w) /\ InstallWatcher(FALSE, FALSE)

\* --------------------------------------------------------- specifications
\* Spec: the credential synchronisation over a fleet that was created while
\* the proxy binary was not yet installed (create_setup then stops before its
\* pass): no tunnel, two tunnels, two tunnels of which one has no DNAT rule or
\* no namespace address.  The panel is configured and holds one user; the
\* binary may or may not be installable at the start.  The watcher is the
\* supervised process "svc", the menu process "ui" runs the interactive pass
\* and restore_all_setups.
SyncFleets == {<<>>,
               <<<<250, "none">>, <<9349, "none">>>>,
               <<<<250, "none">>, <<9349, "dnat">>>>,
               <<<<250, "ns_addr">>, <<9349, "none">>>>}

\* the orders in which os.listdir may give the files of the State Store
PortOrder == <<250, 500, 9349>>
RestoreOrders == {PortOrder, <<9349, 500, 250>>}

Init ==
  \E fleet \in SyncFleets, bin \in BOOLEAN :
     Install([Provisioned(InitWorld(FALSE, TRUE, <<1>>, TRUE, FALSE, {"c1"}), fleet)
                EXCEPT !.xrayBin = bin])

Next ==
  \/ WatcherTick("svc")
  \/ ManageXrayAll(TRUE)
  \/ RestoreAllSetups(PortOrder, TRUE, 0, "none")
  \/ \E proc \in Procs : ProcessStart(proc)
  \/ \E u \in DbContents, bump \in BOOLEAN : SourceWrite(u, bump)
  \/ XrayAvailable

Spec == Init /\ [][Next]_vars

\* ProvSpec: create_setup, restore_from_config_file and delete_setup on one
\* port, with every step that can fail and with endpoint resolution failing,
\* on a host where no panel is configured (the pass that ends create_setup
\* and restore_setup finds no source)
ProvPorts == {250}

InitProv ==
  \E bin \in BOOLEAN : Install(InitWorld(FALSE, FALSE, <<>>, FALSE, bin, {"c1"}))

NextProv ==
  \/ \E port \in ProvPorts, resolved \in BOOLEAN, fail \in Steps \cup {"none"} :
        CreateSetup(port, "c1", resolved, fail, FALSE)
  \/ \E port \in ProvPorts, recreate \in BOOLEAN, resolved \in BOOLEAN,
        fail \in Steps \cup {"none"} :
        RestoreFromConfigFile(port, "c1", recreate, resolved, fail)
  \/ \E port \in ProvPorts : DeleteSetup(port)

ProvSpec == InitProv /\ [][NextProv]_vars

\* NetSpec: the Tunnel State Store and delete_setup over two ports, one of
\* them the port of the legacy namespace "nsxray", with config files that come
\* and go and namespaces that are removed behind the program
NetPorts == {250, LegacyPort}
NetFails == {"none", "ns_addr"}

InitNetSpec ==
  \E legacy \in BOOLEAN : Install(InitWorld(legacy, FALSE, <<>>, FALSE, FALSE, Configs))

NextNet ==
  \/ \E port \in NetPorts, c \in Configs, resolved \in BOOLEAN, fail \in NetFails :
        CreateSetup(port, c, resolved, fail, FALSE)
  \/ \E port \in NetPorts : DeleteSetup(port)
  \/ \E port \in NetPorts, c \in Configs, recreate \in BOOLEAN :
        RestoreFromConfigFile(port, c, recreate, TRUE, "none")
  \/ \E port \in NetPorts : ExternalNetnsDelete(port)
  \/ \E port \in NetPorts : LoggingKilled(port)
  \/ \E c \in Configs : ConfigFileWritten(c)
  \/ \E c \in Configs : ConfigFileRemoved(c)
  \/ RestoreAllSetups(PortOrder, TRUE, 0, "none")

NetSpec == InitNetSpec /\ [][NextNet]_vars

\* FairSpec: the supervised watcher polls for ever (the loop of
\* auto_refresh_main sleeps and ticks again, whatever the tick did) over two
\* healthy tunnels with the proxy binary installed, while the panel rewrites
\* its database
FairFleet == <<<<250, "none">>, <<9349, "none">>>>

InitFair ==
  Install([Provisioned(InitWorld(FALSE, TRUE, <<1>>, TRUE, FALSE, {"c1"}), FairFleet)
             EXCEPT !.xrayBin = TRUE])

NextFair ==
  \/ WatcherTick("svc")
  \/ \E u \in DbContents, bump \in BOOLEAN : SourceWrite(u, bump)

FairSpec == InitFair /\ [][NextFair]_vars /\ WF_vars(WatcherTick("svc"))

\* RestoreSpec: restore_all_setups and restore_setup around a reboot, over two
\* tunnels that were created while the proxy binary was missing, with a panel
\* database that holds one user; config files come and go, one step of the
\* restore of port 250 may fail
RestoreFleet == <<<<250, "none">>, <<9349, "none">>>>
RestoreFails == {"none", "veth_add", "ns_addr", "dns"}

InitRestore ==
  \E saved \in BOOLEAN, bin \in BOOLEAN, c \in Configs :
     Install([save_setup_state(Provisioned(InitWorld(FALSE, TRUE, <<1>>, saved, FALSE, Configs),
                                           RestoreFleet), 9349, c)
                EXCEPT !.xrayBin = bin])

NextRestore ==
  \/ \E order \in RestoreOrders, fail \in RestoreFails :
        RestoreAllSetups(order, TRUE, 250, fail)
  \/ \E port \in NetPorts, c \in Configs : RestoreSetup(port, c, TRUE, "none")
  \/ Reboot
  \/ \E c \in Configs : ConfigFileWritten(c)
  \/ \E c \in Configs : ConfigFileRemoved(c)

RestoreSpec == InitRestore /\ [][NextRestore]_vars

\* WatcherSpec: how the watcher is started (service, thread, detached
\* process) and how its loops tick, over one tunnel with the proxy binary
\* installed; the panel is not configured at first, the operator configures
\* it in the wizard (with the path of the database or with a path at which
\* there is none) or picks it at the prompt of the interactive pass
WatcherFleet == <<<<250, "none">>>>

InitWatcher ==
  /\ \E bin \in BOOLEAN :
        InstallWorld([Provisioned(InitWorld(FALSE, TRUE, <<1>>, FALSE, FALSE, Configs),
                                  WatcherFleet) EXCEPT !.xrayBin = bin])
  /\ \E works \in BOOLEAN, active \in BOOLEAN :
        (active => works) /\ InstallWatcher(works, active)

NextWatcher ==
  \/ \E c \in Callers : StartBackgroundUuidWatcher(c)
  \/ \E c \in Callers : ManageXrayAllWatched(c, TRUE)
  \/ StartWatcherCli
  \/ \E c \in Callers : AcquireLock(c)
  \/ \E c \in Callers : TestStarted(c)
  \/ \E c \in Callers : SetStarted(c)
  \/ \E c \in Callers : StartThread(c)
  \/ \E proc \in Procs, raises \in Raises : LoopTick(proc, raises)
  \/ \E proc \in Procs : LoopWake(proc)
  \/ SupervisorRestart
  \/ \E db_path \in {DbPath, OldPath} : PanelConfigured(db_path)

WatcherSpec == InitWatcher /\ [][NextWatcher]_vars

\* FairWatcherSpec: a polling loop that runs (the service where the supervisor
\* works, the thread of the menu process where it does not), under fairness:
\* a tick that has started ends (every external call returns) and time.sleep
\* returns
InstallRunningWatcher(works) ==
  /\ UUID_WATCHER_STARTED = ~ works
  /\ UUID_WATCHER_LOCK = "free"
  /\ callerPc = [c \in Callers |-> "idle"]
  /\ threads = IF works THEN 0 ELSE 1
  /\ supervisor = works
  /\ serviceActive = works
  /\ fallbacks = 0
  /\ loopPc = [p \in Procs |-> IF (p = "svc") = works THEN "tick" ELSE "off"]
  /\ consecutive_errors = 0
  /\ lastTick = NoTick

InitFairWatcher ==
  /\ \E saved \in BOOLEAN :
        InstallWorld([Provisioned(InitWorld(FALSE, TRUE, <<1>>, saved, FALSE, Configs),
                                  WatcherFleet) EXCEPT !.xrayBin = TRUE])
  /\ \E works \in BOOLEAN : InstallRunningWatcher(works)

NextFairWatcher ==
  \/ \E proc \in Procs, raises \in Raises : LoopTick(proc, raises)
  \/ \E proc \in Procs : LoopWake(proc)
  \/ SupervisorRestart
  \/ \E db_path \in {DbPath, OldPath} : PanelConfigured(db_path)

FairWatcherSpec ==
  /\ InitFairWatcher
  /\ [][NextFairWatcher]_vars
  /\ \A proc \in Procs : WF_vars(\E raises \in Raises : LoopTick(proc, raises))
  /\ \A proc \in Procs : WF_vars(LoopWake(proc))

\* TopoSpec: one operation after the other (create_setup, restore_setup,
\* delete_setup, restart_wireguard) on a port of 1..MaxPort that the operator
\* names, on a host with or without the tunnel of port 250 and with or without
\* the namespace of the earlier shell version.  The state of the network is
\* followed for the ports of Ports; no panel is configured.
TopoPorts == 1..MaxPort
TopoOps == {"create_setup", "restore_setup", "delete_setup", "restart_wireguard"}

\* the names and addresses operation op derives for port
Derived(op, ns_list, port) ==
  CASE op = "create_setup" -> create_setup_topology(port)
    [] op = "restore_setup" -> restore_setup_topology(port)
    [] op = "delete_setup" -> delete_setup_topology(ns_list, port)
    [] OTHER -> restart_wireguard_topology(ns_list, port)

\* what operation op leaves of the state, for a port the state follows
Operated(op, port) ==
  CASE op = "create_setup" -> create_setup(World, lastPass, port, "c1", TRUE, "none", FALSE).w
    [] op = "restore_setup" -> restore_setup(World, lastPass, port, TRUE, "none").w
    [] op = "delete_setup" -> delete_setup(World, port)
    [] OTHER -> restart_wireguard(World, port)

Operate(op) ==
  /\ topo' = [topo EXCEPT !.op = op, !.t = Derived(op, nsList, topo.port)]
  /\ CommitState(IF topo.port \in Ports THEN Operated(op, topo.port) ELSE World)
  /\ lastOp' = OpLog(op, topo.port, "c1", "none", "none")
  /\ UNCHANGED <<watchVars, lastPass, io, entry, wait, pass, logw>>

InitTopo ==
  /\ \E legacy \in BOOLEAN, fleet \in {<<>>, <<<<250, "none">>>>} :
        /\ InstallState(Provisioned(InitWorld(legacy, FALSE, <<>>, FALSE, FALSE, {"c1"}),
                                    fleet), TablesOf(<<>>))
  /\ InstallWatcher(FALSE, FALSE)
  /\ \E port \in TopoPorts : topo = [port |-> port, op |-> "none", t |-> NoTopology]
  /\ io = NoIo /\ entry = NoEntry /\ wait = NoWait
  /\ pass = NoRace
  /\ logw = NoLogWatcher

NextTopo == \E op \in TopoOps : Operate(op)

TopoSpec == InitTopo /\ [][NextTopo]_vars

\* WriteSpec: one write of one of the files the program rewrites (per-port
\* credential file, last hash, last modification time, proxy configuration),
\* from any content to any content of at most MaxBlocks buffer-fulls, and one
\* read of the file by another process at any moment of the write.
InitWrite ==
  /\ InstallState(InitWorld(FALSE, TRUE, <<1>>, TRUE, TRUE, {"c1"}), TablesOf(<<1>>))
  /\ InstallWatcher(FALSE, FALSE)
  /\ topo = [port |-> 0, op |-> "none", t |-> NoTopology]
  /\ entry = NoEntry /\ wait = NoWait
  /\ pass = NoRace
  /\ logw = NoLogWatcher
  /\ \E file \in FileKinds :
        \E old \in Contents(file), new \in Contents(file) :
           io = [file |-> file, old |-> old, new |-> new, disk |-> old, pc |-> "idle",
                 seen |-> NotRead]

NextWrite ==
  \/ OpenForWrite
  \/ FlushBlock
  \/ CloseFile
  \/ ReadFile

WriteSpec == InitWrite /\ [][NextWrite]_vars

\* StartSpec: the operator starts and stops the proxies from the menu, for one
\* port or for all, while the watcher ticks and the panel writes its
\* database; two tunnels stand, the panel is configured and the proxy binary
\* is installed
StartPorts == {0, 250, 9349}

InitStart ==
  \E u \in {<<>>, <<1>>} :
     Install([Provisioned(InitWorld(FALSE, TRUE, u, TRUE, FALSE, {"c1"}),
                          <<<<250, "none">>, <<9349, "none">>>>)
                EXCEPT !.xrayBin = TRUE])

NextStart ==
  \/ \E port \in StartPorts, action \in {"start", "stop"} : ManageXray(port, action, TRUE)
  \/ WatcherTick("svc")
  \/ \E u \in DbContents, bump \in BOOLEAN : SourceWrite(u, bump)

StartSpec == InitStart /\ [][NextStart]_vars

\* CreateSpec: tunnels created and deleted from the menu on a host whose
\* panel is configured and whose proxy binary is installed, while the watcher
\* ticks and the panel writes its database; the tunnel of port 9349 may stand
\* already
CreatePorts == {250}

InitCreate ==
  \E fleet \in {<<>>, <<<<9349, "none">>>>} :
     Install([Provisioned(InitWorld(FALSE, TRUE, <<1>>, TRUE, FALSE, {"c1"}), fleet)
                EXCEPT !.xrayBin = TRUE])

NextCreate ==
  \/ \E port \in CreatePorts, fail \in {"none", "veth_add"} :
        CreateSetup(port, "c1", TRUE, fail, TRUE)
  \/ \E port \in CreatePorts : DeleteSetup(port)
  \/ WatcherTick("svc")
  \/ \E u \in DbContents, bump \in BOOLEAN : SourceWrite(u, bump)

CreateSpec == InitCreate /\ [][NextCreate]_vars

\* InferSpec: the passes of the watcher and of the menu over two whole
\* tunnels, created in either order, whose ports are congruent modulo 250 or
\* not; the proxy binary is installed, the panel is configured
InferFleets == {<<<<250, "none">>, <<9349, "none">>>>,
                <<<<250, "none">>, <<500, "none">>>>,
                <<<<500, "none">>, <<250, "none">>>>}

InitInfer ==
  \E fleet \in InferFleets :
     Install([Provisioned(InitWorld(FALSE, TRUE, <<1>>, TRUE, FALSE, {"c1"}), fleet)
                EXCEPT !.xrayBin = TRUE])

NextInfer ==
  \/ WatcherTick("svc")
  \/ ManageXrayAll(TRUE)
  \/ \E proc \in Procs : ProcessStart(proc)
  \/ \E u \in DbContents, bump \in BOOLEAN : SourceWrite(u, bump)

InferSpec == InitInfer /\ [][NextInfer]_vars

\* FrameSpec: tunnels created and deleted from the menu on the ports of
\* Ports (250 and 500 are congruent modulo 250, 9349 is the port of the
\* earlier shell version), on a host with or without the namespace "nsxray";
\* every step of create_setup succeeds; no panel is configured
InitFrame ==
  \E legacy \in BOOLEAN : Install(InitWorld(legacy, FALSE, <<>>, FALSE, FALSE, {"c1"}))

NextFrame ==
  \/ \E port \in Ports : CreateSetup(port, "c1", TRUE, "none", FALSE)
  \/ \E port \in Ports : DeleteSetup(port)

FrameSpec == InitFrame /\ [][NextFrame]_vars

\* RulesSpec: any sequence of create_setup, restore_setup and delete_setup
\* on port 250 and on port 9349, each call with an endpoint that does not
\* resolve, or with one step failing (a checked one, or one of those that add
\* the rules), or with none, on a host with or without the namespace "nsxray"
\* and with or without the tunnel of port 500, which has the subnet of port
\* 250; no panel is configured
RulePorts == {250, 9349}
RuleFails == {"none", "netns_add", "veth_add", "wg_setconf", "masq", "dnat", "forward", "dns"}
RuleCalls == {<<TRUE, fail>> : fail \in RuleFails} \cup {<<FALSE, "none">>}

InitRules ==
  \E legacy \in BOOLEAN, fleet \in {<<>>, <<<<500, "none">>>>} :
     Install(Provisioned(InitWorld(legacy, FALSE, <<>>, FALSE, FALSE, {"c1"}), fleet))

NextRules ==
  \/ \E port \in RulePorts, call \in RuleCalls :
        CreateSetup(port, "c1", call[1], call[2], FALSE)
  \/ \E port \in RulePorts, call \in RuleCalls :
        RestoreSetup(port, "c1", call[1], call[2])
  \/ \E port \in RulePorts : DeleteSetup(port)

RulesSpec == InitRules /\ [][NextRules]_vars

\* RaceSpec: the watcher's pass and the operator's interactive pass, step by
\* step and interleaved, on a host whose tunnels (port 250, or ports 250 and
\* 9349) were synchronised with the one identifier of the source; each
\* process holds the hash of that pass in memory or has started since; the
\* panel writes its database between two rounds of passes
RaceFleets == {<<<<250, "none">>>>, <<<<250, "none">>, <<9349, "none">>>>}

Synced(w) == refresh_uuids_for_all_namespaces(w, NoPass, "svc", FALSE, FALSE, FALSE).w

InitRace ==
  \E fleet \in RaceFleets, holds \in [Procs -> BOOLEAN] :
     Install([Synced([Provisioned(InitWorld(FALSE, TRUE, <<1>>, TRUE, FALSE, {"c1"}), fleet)
                        EXCEPT !.xrayBin = TRUE])
                EXCEPT !.LAST_UUID_HASH =
                          [p \in Procs |-> IF holds[p] THEN get_uuids_hash(<<1>>) ELSE None]])

NextRace ==
  \/ \E proc \in Procs : PassCheckMtime(proc)
  \/ \E proc \in Procs : PassClearHash(proc)
  \/ \E proc \in Procs : PassExtract(proc)
  \/ \E proc \in Procs : PassLoadHash(proc)
  \/ \E proc \in Procs : PassSaveHash(proc)
  \/ \E proc \in Procs : PassSaveMtime(proc)
  \/ \E proc \in Procs : PassSync(proc)
  \/ \E u \in DbContents, bump \in BOOLEAN : SourceChanges(u, bump)

RaceSpec == InitRace /\ [][NextRace]_vars

\* LogSpec: the menu process with no panel chosen yet; the operator chooses a
\* panel (any number of times), installs or removes the marzban CLI, and the
\* panel logs lines, "New user ... added" among them.  The state of the
\* network and of the credentials is not followed.
InitLog == Install(InitWorld(FALSE, TRUE, <<1>>, FALSE, TRUE, {"c1"}))

NextLog ==
  \/ \E panel_name \in PanelNames : ChoosePanel(panel_name)
  \/ \E present \in BOOLEAN : MarzbanCli(present)
  \/ \E line \in LogLines : MarzbanLogs(line)

LogSpec == InitLog /\ [][NextLog]_vars

\* WaitSpec: restart_wireguard on the ports of Ports, on a host with the
\* tunnel of port 250 (whole, or with its tunnel interface left outside the
\* namespace, or without its routes) and with or without the namespace of
\* the earlier shell version; the peer answers at any moment of the wait or
\* never.  time.sleep and the probe return: the steps of the wait are taken.
InitWait ==
  /\ \E legacy \in BOOLEAN, fail \in {"none", "wg_move", "routes"} :
        /\ InstallState(Provisioned(InitWorld(legacy, FALSE, <<>>, FALSE, FALSE, {"c1"}),
                                    <<<<250, fail>>>>), TablesOf(<<>>))
  /\ InstallWatcher(FALSE, FALSE)
  /\ topo = [port |-> 0, op |-> "none", t |-> NoTopology]
  /\ io = NoIo /\ entry = NoEntry /\ wait = NoWait
  /\ pass = NoRace
  /\ logw = NoLogWatcher

NextWait ==
  \/ \E port \in Ports : RestartWireguard(port)
  \/ Sleep
  \/ Probe
  \/ Report
  \/ Handshake

WaitSpec ==
  /\ InitWait
  /\ [][NextWait]_vars
  /\ WF_vars(Sleep) /\ WF_vars(Probe) /\ WF_vars(Report)

\* RebuildSpec: the tunnel of one port built by create_setup and by
\* restore_setup, with any one step failing or none, deleted by delete_setup,
\* its namespace removed behind the program (rules and links stay); the
\* tunnel of a port with the same subnet octet may stand next to it
RebuildPorts == {250}

InitRebuild ==
  \E bin \in BOOLEAN, fleet \in {<<>>, <<<<500, "none">>>>} :
     Install([Provisioned(InitWorld(FALSE, FALSE, <<>>, FALSE, FALSE, {"c1"}), fleet)
                EXCEPT !.xrayBin = bin])

NextRebuild ==
  \/ \E port \in RebuildPorts, resolved \in BOOLEAN, fail \in ProvisioningFails :
        CreateSetup(port, "c1", resolved, fail, FALSE)
  \/ \E port \in RebuildPorts, resolved \in BOOLEAN, fail \in ProvisioningFails :
        RestoreSetup(port, "c1", resolved, fail)
  \/ \E port \in RebuildPorts : DeleteSetup(port)
  \/ \E port \in RebuildPorts : ExternalNetnsDelete(port)

RebuildSpec == InitRebuild /\ [][NextRebuild]_vars

\* EntrySpec: the entry points of the program through which a port comes
\* in, one after the other on lines the operator types and on names found on
\* the host.  The state of the network is not followed.
TypedLines ==
  {<<>>, <<"0">>, <<"1">>, <<"2", "5", "0">>, <<"6", "5", "5", "3", "5">>,
   <<"6", "5", "5", "3", "6">>, <<"-", "1">>, <<"+", "1">>, <<"x">>, <<"2", "x">>}

NamespaceNames ==
  {<<"n", "s", "-", "2", "5", "0">>, <<"n", "s", "-", "0">>,
   <<"n", "s", "-", "6", "5", "5", "3", "6">>, <<"n", "s", "-">>,
   <<"n", "s", "-", "x">>, <<"n", "s", "-", "2", "5", "0", "-", "1">>,
   <<"n", "s", "x", "r", "a", "y">>}

FileNames ==
  {<<"w", "g", "0", ".", "c", "o", "n", "f">>,
   <<"w", "g", "-", "2", "5", "0", ".", "c", "o", "n", "f">>,
   <<"w", "g", ".", "c", "o", "n", "f">>,
   <<"w", "g", "-", "6", "5", "5", "3", "6", ".", "c", "o", "n", "f">>,
   <<"w", "g", "1", "-", "2", "5", "0", ".", "c", "o", "n", "f">>,
   <<"w", "g", "-", "2", "5", "0", ".", "t", "x", "t">>}

InitEntry ==
  /\ InstallState(InitWorld(FALSE, FALSE, <<>>, FALSE, FALSE, {"c1"}), TablesOf(<<>>))
  /\ InstallWatcher(FALSE, FALSE)
  /\ topo = [port |-> 0, op |-> "none", t |-> NoTopology]
  /\ io = NoIo /\ entry = NoEntry /\ wait = NoWait
  /\ pass = NoRace
  /\ logw = NoLogWatcher

NextEntry ==
  \/ \E text \in TypedLines, in_use \in BOOLEAN, ans \in {"y", "n"}, built \in BOOLEAN :
        CreateEntry(text, in_use, ans, built)
  \/ \E text \in TypedLines, exists \in BOOLEAN, recreate \in BOOLEAN, restored \in BOOLEAN :
        ManualRestoreEntry(text, exists, recreate, restored)
  \/ \E text \in TypedLines : DeleteEntry(text)
  \/ \E ns_name \in NamespaceNames, has_ip \in BOOLEAN, found \in BOOLEAN :
        IntrospectionEntry(ns_name, has_ip, found)
  \/ \E filename \in FileNames, valid \in BOOLEAN : ScanEntry(filename, valid)

EntrySpec == InitEntry /\ [][NextEntry]_vars

\* SkipSpec: the passes of the watcher and of the menu over two tunnels of
\* which one has no namespace address or no DNAT rule (the step of
\* create_setup that gives it failed), the ports of the two being congruent
\* modulo 250 or not; the proxy binary is installed, the panel is configured.
SkipFleets == {<<<<250, "ns_addr">>, <<9349, "none">>>>,
               <<<<250, "none">>, <<9349, "dnat">>>>,
               <<<<250, "ns_addr">>, <<500, "none">>>>}

InitSkip ==
  \E fleet \in SkipFleets :
     Install([Provisioned(InitWorld(FALSE, TRUE, <<1>>, TRUE, FALSE, {"c1"}), fleet)
                EXCEPT !.xrayBin = TRUE])

NextSkip ==
  \/ WatcherTick("svc")
  \/ ManageXrayAll(TRUE)
  \/ \E proc \in Procs : ProcessStart(proc)
  \/ \E u \in DbContents, bump \in BOOLEAN : SourceWrite(u, bump)

SkipSpec == InitSkip /\ [][NextSkip]_vars

\* ExtractSpec: the extraction over every content of the panel database with
\* at most MaxRows rows per table, and the passes that read it: the loop of
\* the supervised watcher and the interactive pass of the menu, over one
\* tunnel.  The text of every identifier of a row occurs in the bytes of the
\* file; other identifiers may occur there as well.  The database starts with
\* any such content; the panel then reorders its rows, or is left with one
\* user or none (with any schema or error).
Ids == {1, 2}
Rows == UNION {[1..n -> Ids] : n \in 0..MaxRows}
PanelModes == {"ok", "noschema", "error", "error_users"}
PanelTables ==
  {t \in [mode : PanelModes,
          proxies : Rows, users : Rows, text : SUBSET Ids] :
     Range(t.proxies) \cup Range(t.users) \subseteq t.text}

IsPermutation(a, b) ==
  /\ Len(a) = Len(b)
  /\ \A x \in Range(a) \cup Range(b) : Count(a, x) = Count(b, x)

\* the orders in which the rows of a table may come
Reorders(rows) ==
  {[i \in 1..Len(rows) |-> rows[f[i]]] : f \in Permutations(1..Len(rows))}

PanelUpdates(cur) ==
  {[cur EXCEPT !.proxies = p, !.users = u] :
      p \in Reorders(cur.proxies), u \in Reorders(cur.users)}
  \cup {[mode |-> m, proxies |-> <<>>, users |-> u, text |-> Range(u)] :
           m \in PanelModes, u \in {<<>>, <<1>>}}

InitExtract ==
  /\ \E t \in PanelTables :
        InstallTables([Provisioned(InitWorld(FALSE, TRUE, <<>>, TRUE, FALSE, {"c1"}),
                                   <<<<250, "none">>>>)
                         EXCEPT !.xrayBin = TRUE, !.dbUuids = extract_uuids_from_rows(t)],
                      t)
  /\ InstallRunningWatcher(TRUE)

NextExtract ==
  \/ LoopTick("svc", "none")
  \/ LoopWake("svc")
  \/ ManageXrayAll(TRUE)
  \/ \E t \in PanelUpdates(dbTables), bump \in BOOLEAN : PanelWrites(t, bump)

ExtractSpec == InitExtract /\ [][NextExtract]_vars

\* ----------------------------------------------------------------- claims
\* this step is one pass of refresh_uuids_for_all_namespaces
PassStep == lastPass'.seq # lastPass.seq

\* phases of a pass that got a non-empty list out of the source
ListPhases == {"unchanged", "nons", "synced"}

\* before the pass: the previous hash of the process, None when it has none
PreviousHash(proc) ==
  IF LAST_UUID_HASH[proc] # None THEN LAST_UUID_HASH[proc]
  ELSE IF hashFile = EmptyString THEN None ELSE hashFile

\* before the pass: no modification time is persisted, or another one
MtimeDiffers == mtimeFile = 0 \/ mtimeFile # dbMtime

\* after the pass: the proxies of namespace ns on port
ProxiesAfter(ns, port) == {x \in xrayProcs' : x.ns = ns /\ x.port = port}

\* the pass of this step neither killed nor launched a proxy nor wrote a
\* proxy configuration
NothingRestarted ==
  /\ xrayProcs' = xrayProcs
  /\ xrayConf' = xrayConf
  /\ lastPass'.kills = {}
  /\ lastPass'.launches = NoLaunches

\* C1: for a non-empty extracted list, a pass decides to resynchronise iff it
\* is forced, or the modification time of the source differs from the
\* persisted one (or none is persisted), or the previous hash differs from the
\* current one, or there is no previous hash; the first pass ever decides to.
C1_Decision ==
  [][PassStep /\ lastPass'.phase \in ListPhases =>
       /\ lastPass'.changed <=>
            \/ lastPass'.force
            \/ MtimeDiffers
            \/ PreviousHash(lastPass'.proc) # get_uuids_hash(dbUuids)
            \/ PreviousHash(lastPass'.proc) = None
       /\ lastPass.phase = "none" => lastPass'.changed]_vars

\* a non-forced pass over running proxies that decided not to resynchronise
C1_Witness ==
  /\ lastPass.phase = "unchanged"
  /\ ~ lastPass.force
  /\ xrayProcs # {}

\* before the pass: the source holds every identifier last recorded and more
GainedIdentifier ==
  /\ hashFile \notin {None, EmptyString}
  /\ Range(hashFile) \subseteq Range(dbUuids)
  /\ Range(hashFile) # Range(dbUuids)

\* the pass of this step regenerated the configuration of (ns, port) with the
\* list of the source, killed what ran there and launched one proxy
Resynced(ns, port) ==
  /\ xrayConf'[port] = dbUuids
  /\ lastPass'.launches[ns] = 1
  /\ ProxiesAfter(ns, port) = {[ns |-> ns, port |-> port, allow |-> dbUuids]}
  /\ PidsOnPort(World, ns, port) # {} => <<ns, port>> \in lastPass'.kills

C3_SecondPassIdle ==
  [][PassStep /\ ~ lastPass'.force
       /\ lastPass.phase \in ListPhases /\ ~ lastPass.force /\ lastPass.srcSame
     => /\ ~ lastPass'.changed
        /\ NothingRestarted
        /\ \A d \in Derivable(World) : uuidFile'[d[2]] = save_uuids_to_file(dbUuids)]_vars

\* the second of two passes over an unchanged source has restarted proxies
C3_Witness ==
  /\ lastPass.phase = "synced"
  /\ ~ lastPass.force
  /\ ~ lastPass.fileChanged
  /\ lastPass.from = "memory"
  /\ lastPass.kills # {}
  /\ hashFile = get_uuids_hash(dbUuids)

\* every namespace the pass can act on runs a proxy that admits exactly S
RunsExactly(S) ==
  \A d \in Derivable(World) :
     /\ PidsOnPort(World, d[1], d[2]) # {}
     /\ \A x \in PidsOnPort(World, d[1], d[2]) : Range(x.allow) = Range(S)

\* C4: once the source holds S, then unless the source changes again, the
\* ticking watcher gets every managed namespace to run a proxy whose
\* allow-list is exactly S: for every S, the empty set included.
C4_Converges ==
  \A S \in DbContents : (dbUuids = S) ~> (dbUuids # S \/ RunsExactly(S))

\* the watcher has ticked over an emptied source while proxies admit a user
C4_Witness ==
  /\ lastPass.phase = "empty"
  /\ dbUuids = <<>>
  /\ \E x \in xrayProcs : x.allow # <<>>

\* C5: the persisted hash is a last-applied fingerprint: when it holds the
\* hash of S, every managed namespace with a derivable address and port has a
\* proxy configuration generated from S and a proxy launched with it.
C5_LastApplied ==
  hashFile \notin {None, EmptyString} =>
    \A d \in Derivable(World) :
       /\ xrayConf[d[2]] # Absent
       /\ get_uuids_hash(xrayConf[d[2]]) = hashFile
       /\ \E x \in PidsOnPort(World, d[1], d[2]) : get_uuids_hash(x.allow) = hashFile

\* a pass has recorded the hash while a namespace it could act on has no proxy
C5_Witness ==
  /\ lastPass.phase = "synced"
  /\ hashFile = get_uuids_hash(dbUuids)
  /\ \E d \in Derivable(World) : PidsOnPort(World, d[1], d[2]) = {}

\* C6: a pass persisted hash H and modification time M; a fresh process
\* (LAST_UUID_HASH unset) that runs a non-forced pass over the same source
\* decides not to resynchronise and restarts no proxy.
C6_FreshProcess ==
  [][PassStep /\ ~ lastPass'.force
       /\ LAST_UUID_HASH[lastPass'.proc] = None
       /\ dbUuids # <<>>
       /\ hashFile = get_uuids_hash(dbUuids)
       /\ mtimeFile = dbMtime
     => /\ ~ lastPass'.changed
        /\ NothingRestarted]_vars

\* a fresh process took its previous hash from the file and left the running
\* proxies alone
C6_Witness ==
  /\ lastPass.phase = "unchanged"
  /\ lastPass.from = "file"
  /\ xrayProcs # {}

\* what create_setup(port) creates is gone from the state after the step
TornDown(port) ==
  /\ NsName(port) \notin nsList'
  /\ vethHost'[port] = "none"
  /\ wgLoc'[port] = "none"
  /\ port \notin nsRoutes'
  /\ NsName(port) \notin dnsOverride'
  /\ \A proto \in Range(Protos) :
        /\ Count(dnat', DnatRule(proto, port, SubnetOctet(port))) = 0
        /\ Count(fwd', FwdInRule(proto, SubnetOctet(port), port)) = 0
        /\ Count(fwd', FwdOutRule(proto, SubnetOctet(port))) = 0
  /\ Count(masq', MasqRule(SubnetOctet(port), port)) = 0

\* C7: when a provisioning step of create_setup fails after the namespace has
\* been created, the call tears down everything it created and writes no
\* State Store record for the port.
C7_Teardown ==
  [][/\ lastOp'.op = "create"
     /\ lastOp'.result # "noresolve"
     /\ lastOp'.fail \in StepsAfterNamespace
     => /\ TornDown(lastOp'.port)
        /\ stateFiles' = stateFiles]_vars

\* create_setup went through although the namespace got no address, and the
\* tunnel is in the State Store
C7_Witness ==
  /\ lastOp.op = "create"
  /\ lastOp.fail = "ns_addr"
  /\ lastOp.result = "ok"
  /\ NsName(lastOp.port) \in nsList
  /\ nsAddr[NsName(lastOp.port)] = 0
  /\ stateFiles[lastOp.port] # NoRecord

\* the step created no namespace, link, tunnel interface, route or rule
NothingCreated ==
  /\ nsList' \subseteq nsList
  /\ \A v \in Links : vethHost'[v] # "none" => vethHost'[v] = vethHost[v]
  /\ \A q \in Ports : wgLoc'[q] # "none" => wgLoc'[q] = wgLoc[q]
  /\ nsRoutes' \subseteq nsRoutes
  /\ dnsOverride' \subseteq dnsOverride
  /\ \A r \in Range(dnat') : Count(dnat', r) <= Count(dnat, r)
  /\ \A r \in Range(masq') : Count(masq', r) <= Count(masq, r)
  /\ \A r \in Range(fwd') : Count(fwd', r) <= Count(fwd, r)
  /\ logRules' \subseteq logRules

\* the step wrote no State Store record
NoRecordWritten ==
  \A n \in Ports : stateFiles'[n] # NoRecord => stateFiles'[n] = stateFiles[n]

\* C8: when endpoint resolution yields no address, create_setup and
\* restore_setup return without having created a namespace, a link, a tunnel
\* interface, a route or a firewall rule, and without writing a State Store
\* record.
C8_NoEndpoint ==
  [][lastOp'.op \in {"create", "restore"} /\ lastOp'.result = "noresolve"
     => NothingCreated /\ NoRecordWritten]_vars

\* create_setup stopped at the endpoint after its cleanup removed an earlier
\* tunnel on the port, whose record is still in the State Store
C8_Witness ==
  /\ lastOp.op = "create"
  /\ lastOp.result = "noresolve"
  /\ nsList = {}
  /\ stateFiles[lastOp.port] # NoRecord

\* the (port, config) of the step's create_setup or restore, when it succeeded
SavedByStep ==
  /\ lastOp'.op = "create"
  /\ lastOp'.result = "ok"

\* the step runs create, restore or delete on port p
StepOnPort(p) ==
  /\ lastOp'.op \in {"create", "restore", "delete"}
  /\ lastOp'.port = p

CleanedUp(p) ==
  /\ lastOp'.result \in {"deleted", "cleaned"}
  /\ nsList' = nsList
  /\ vethHost'[p] = "none"
  /\ \A proto \in Range(Protos) :
        /\ Count(dnat, DnatRule(proto, p, SubnetOctet(p))) > 0
             => Count(dnat', DnatRule(proto, p, SubnetOctet(p)))
                  < Count(dnat, DnatRule(proto, p, SubnetOctet(p)))
        /\ Count(fwd, FwdInRule(proto, SubnetOctet(p), p)) > 0
             => Count(fwd', FwdInRule(proto, SubnetOctet(p), p))
                  < Count(fwd, FwdInRule(proto, SubnetOctet(p), p))
        /\ Count(fwd, FwdOutRule(proto, SubnetOctet(p))) > 0
             => Count(fwd', FwdOutRule(proto, SubnetOctet(p)))
                  < Count(fwd, FwdOutRule(proto, SubnetOctet(p)))
  /\ Count(masq, MasqRule(SubnetOctet(p), p)) > 0
       => Count(masq', MasqRule(SubnetOctet(p), p)) < Count(masq, MasqRule(SubnetOctet(p), p))
  /\ LogDnatRule(p) \notin logRules'
  /\ LogFwdRule(p, SubnetOctet(p)) \notin logRules'
  /\ stateFiles'[p] = NoRecord

\* C10 (as amended): when neither ns-p nor, for port 9349, the legacy namespace
\* nsxray exists, delete_setup(p) completes: it deletes no namespace, removes
\* the host link and every DNAT, masquerade, forwarding and LOG rule derived
\* from p that is there, and removes the State Store record of p.
C10_DeleteAbsent ==
  [][/\ lastOp'.op = "delete"
     /\ NsName(lastOp'.port) \notin nsList
     /\ ~ (lastOp'.port = LegacyPort /\ NSXRAY \in nsList)
     => CleanedUp(lastOp'.port)]_vars

\* C10 (as stated): the same whenever ns-p does not exist.
C10_DeleteAbsent_Always ==
  [][/\ lastOp'.op = "delete"
     /\ NsName(lastOp'.port) \notin nsList
     => CleanedUp(lastOp'.port)]_vars

\* delete_setup found no namespace and cleaned up: nothing of the port is left
\* although its namespace had been removed behind the program
C10_Witness ==
  /\ lastOp.op = "delete"
  /\ lastOp.result = "cleaned"
  /\ lastOp.port = 250
  /\ vethHost[250] = "none"
  /\ dnat = <<>>
  /\ logRules = {}
  /\ stateFiles[250] = NoRecord
  /\ stateFiles[LegacyPort] # NoRecord

\* C11: load_all_setup_states returns exactly the records whose config file
\* exists; restore_all_setups, which starts with it, ends normally, leaves no
\* record behind that names a missing config file, and leaves every record
\* whose config file exists as it was
RecordIsGood(n) == stateFiles[n] # NoRecord /\ stateFiles[n].cfg \in cfgFiles

C11_StaleRecords ==
  [][lastOp'.op = "restore_all" =>
       /\ load_all_setup_states(World).tunnels =
             {<<stateFiles[n].port, stateFiles[n].cfg>> : n \in {q \in Ports : RecordIsGood(q)}}
       /\ lastOp'.result \in {"nothing", "restored", "none_restored"}
       /\ \A n \in Ports : stateFiles'[n] # NoRecord => stateFiles'[n].cfg \in cfgFiles'
       /\ \A n \in Ports : RecordIsGood(n) => stateFiles'[n] = stateFiles[n]]_vars

\* restore_all_setups has dropped the record of port 250, whose config file is
\* gone, and kept the record of port 9349
C11_Witness ==
  /\ lastOp.op = "restore_all"
  /\ "c1" \notin cfgFiles
  /\ stateFiles[250] = NoRecord
  /\ stateFiles[9349] = [port |-> 9349, cfg |-> "c2"]

\* C12: restore_setup for a port whose namespace ns-<port> exists, complete or
\* half-built, returns success and changes nothing: no network object, rule,
\* file, record or process is created, changed or removed, no pass runs
C12_RestoreIdempotent ==
  [][(lastOp'.op = "restore_setup" /\ NsName(lastOp'.port) \in nsList) =>
       /\ lastOp'.result = "exists"
       /\ World' = World
       /\ lastPass' = lastPass]_vars

\* restore_setup has returned on an existing namespace whose proxy is running
C12_Witness ==
  /\ lastOp.op = "restore_setup"
  /\ lastOp.result = "exists"
  /\ \E x \in xrayProcs : x.ns = NsName(lastOp.port)

\* C13: restore_all_setups takes its tunnels from the State Store; only when
\* the State Store yields none does it inspect the live namespaces, and only
\* when that finds none does it scan the config directories; every tunnel so
\* found whose config file exists is saved, and is what a following
\* load_all_setup_states returns
Introspected == {q \in Ports : NsName(q) \in nsList /\ nsAddr[NsName(q)] # 0}

FoundByDetection ==
  IF Introspected # {}
  THEN {<<q, find_wg_config_for_port(World, q)>> : q \in Introspected}
  ELSE scan_wg_config_files(World)

C13_Discovery ==
  [][lastOp'.op = "restore_all" =>
       /\ load_all_setup_states(World).tunnels # {} =>
             stateFiles' = load_all_setup_states(World).w.stateFiles
       /\ (load_all_setup_states(World).tunnels = {} /\ Introspected # {}) =>
             \A n \in Ports : stateFiles'[n] # NoRecord => n \in Introspected
       /\ load_all_setup_states(World).tunnels = {} =>
             load_all_setup_states(World').tunnels =
               {t \in FoundByDetection : t[2] \in cfgFiles}]_vars

\* restore_all_setups found the State Store empty and two live namespaces: it
\* saved port 250, for which a config file is found, and not port 9349
C13_Witness ==
  /\ lastOp.op = "restore_all"
  /\ lastOp.result = "none_restored"
  /\ stateFiles[250] = [port |-> 250, cfg |-> "c2"]
  /\ stateFiles[9349] = NoRecord
  /\ NsName(9349) \in nsList

\* C14: every run of restore_all_setups, whatever it restored and whatever the
\* State Store held, ends with a forced pass over all managed namespaces:
\* where a non-empty credential source is persisted and the proxy binary is
\* available, every managed namespace then runs a proxy that admits exactly
\* the identifiers of the source
C14_AlwaysResyncs ==
  [][(/\ lastOp'.op = "restore_all"
      /\ isfile(World, configSaved) /\ dbUuids # <<>> /\ xrayBin) =>
       RunsExactly(dbUuids)']_vars

\* restore_all_setups has returned with "No tunnels to restore" while a
\* managed namespace runs no proxy, the source and the binary being there
C14_Witness ==
  /\ lastOp.op = "restore_all"
  /\ lastOp.result = "nothing"
  /\ isfile(World, configSaved) /\ dbUuids # <<>> /\ xrayBin
  /\ \E d \in Derivable(World) : PidsOnPort(World, d[1], d[2]) = {}

\* C15: in restore_all_setups a tunnel whose restore fails is skipped and not
\* counted as restored, and every other tunnel of the State Store is still
\* restored, in whatever order the State Store lists them
ToRestore == {t \in load_all_setup_states(World).tunnels : NsName(t[1]) \notin nsList}

C15_FailureIsolated ==
  [][(/\ lastOp'.op = "restore_all"
      /\ lastOp'.fail # "none"
      /\ \E t \in ToRestore : t[1] = lastOp'.port) =>
       /\ \A t \in ToRestore :
             t[1] # lastOp'.port =>
               NsName(t[1]) \in nsList' /\ nsAddr'[NsName(t[1])] # 0
       /\ (\A t \in ToRestore : t[1] = lastOp'.port) =>
             lastOp'.result = "none_restored"]_vars

\* restore_all_setups reports a restored tunnel although the only restore it
\* ran left the namespace of port 250 without its address
C15_Witness ==
  /\ lastOp.op = "restore_all"
  /\ lastOp.fail = "ns_addr"
  /\ lastOp.result = "restored"
  /\ NsName(250) \in nsList
  /\ nsAddr[NsName(250)] = 0
  /\ NsName(9349) \notin nsList

\* C16: whatever the number and the interleaving of the calls of
\* start_uuid_watcher in one process, at most one polling thread is started,
\* and no two callers are both past the check of UUID_WATCHER_STARTED
PastCheck == {c \in Callers : callerPc[c] \in {"set", "start"}}

C16_OneThread ==
  /\ threads <= 1
  /\ Cardinality(PastCheck) + threads <= 1

\* the polling thread runs and a second caller, holding the lock, is at the
\* check of the flag
C16_Witness ==
  /\ threads = 1
  /\ \E c \in Callers : callerPc[c] = "test" /\ UUID_WATCHER_LOCK = c

\* C17: on a host whose supervisor works, start_background_uuid_watcher and
\* --start-watcher start no polling thread and no detached process, and at
\* most one polling loop runs on the host
RunningLoops == {p \in Procs : loopPc[p] \in {"tick", "sleep"}}

C17_ServiceOnly ==
  supervisor =>
    /\ threads = 0
    /\ fallbacks = 0
    /\ \A c \in Callers : callerPc[c] = "idle"
    /\ Cardinality(RunningLoops) + fallbacks <= 1

\* start_background_uuid_watcher has returned on the service, whose loop runs
C17_Witness ==
  /\ lastOp.op = "start_watcher"
  /\ lastOp.result = "service"
  /\ supervisor /\ serviceActive
  /\ threads = 0
  /\ loopPc["svc"] = "sleep"

\* C18: a tick of a polling loop that has no credential source (none set in
\* the process and none persisted, or the file is not there) changes no proxy,
\* proxy configuration, credential file or change marker, counts as no
\* failure and is followed by the sleep; and a tick that finds a persisted
\* source whose file exists uses it
TickOf(p) == loopPc[p] = "tick" /\ loopPc'[p] # "tick"

NoSource(p) == ~ isfile(wrapper_load(World, p), wrapper_load(World, p).PANEL_DB_PATH[p])

SourcePersisted == isfile(World, configSaved) \/ isfile(World, panelSaved)

C18_NoSourceTick ==
  [][\A p \in Procs :
       (TickOf(p) /\ lastTick'.raises = "none") =>
         /\ NoSource(p) =>
               /\ UNCHANGED <<xrayProcs, xrayConf, uuidFile, hashFile, mtimeFile,
                              LAST_UUID_HASH>>
               /\ lastTick'.errors = 0
               /\ lastTick'.slept = 1
               /\ loopPc'[p] = "sleep"
         /\ SourcePersisted => lastPass'.phase # "nodb"]_vars

\* the service loop has skipped a tick although the panel state file names
\* the database, which exists
C18_Witness ==
  /\ lastTick.proc = "svc"
  /\ lastTick.raises = "none"
  /\ lastPass.proc = "svc"
  /\ lastPass.phase = "nodb"
  /\ loopPc["svc"] = "sleep"
  /\ isfile(World, panelSaved)

\* C19: the thread loop counts the consecutive ticks in which an error
\* occurred anywhere in the tick, the pass included: the 10th such tick in a
\* row is followed by a sleep of two intervals and resets the counter, an
\* earlier one by a sleep of one interval, and a tick without error resets
\* the counter
C19_ErrorCounter ==
  [][(TickOf("ui") /\ lastTick'.raises # "interrupt") =>
       IF lastTick'.raises \in {"pass", "wrapper"}
       THEN IF consecutive_errors + 1 >= max_consecutive_errors
            THEN lastTick'.slept = 2 /\ consecutive_errors' = 0
            ELSE lastTick'.slept = 1 /\ consecutive_errors' = consecutive_errors + 1
       ELSE lastTick'.slept = 1 /\ consecutive_errors' = 0]_vars

\* a tick of the thread loop in which the pass raised has left the counter at 0
C19_Witness ==
  /\ lastTick.proc = "ui"
  /\ lastTick.raises = "pass"
  /\ lastTick.errors = 0
  /\ consecutive_errors = 0
  /\ loopPc["ui"] = "sleep"

\* C20: both polling loops go on after every tick that did not end in
\* KeyboardInterrupt, whether it synchronised, skipped or raised an
\* Exception: the tick is followed by the sleep, and the sleep by a tick
C20_LoopsGoOn ==
  /\ [][\A p \in Procs :
          (TickOf(p) /\ lastTick'.raises # "interrupt") => loopPc'[p] = "sleep"]_vars
  /\ \A p \in Procs : (loopPc[p] = "sleep") ~> (loopPc[p] = "tick")

\* as stated, for any exception: every tick is followed by the sleep
C20_LoopsForever ==
  \A p \in Procs : (loopPc[p] = "tick") ~> (loopPc[p] = "sleep")

\* the service loop is at its next tick after a tick that raised
C20_Witness ==
  /\ lastTick.proc = "svc"
  /\ lastTick.raises = "wrapper"
  /\ loopPc["svc"] = "tick"


\* --- C21
\* the structured path gave the result of the extraction
StructuredResult == dbTables.mode = "ok" /\ structured_uuids(dbTables) # <<>>

OneIf(b) == IF b THEN 1 ELSE 0

NoStructured ==
  \/ dbTables.mode \in {"noschema", "error"}
  \/ dbTables.proxies = <<>> /\ (dbTables.users = <<>> \/ dbTables.mode = "error_users")

\* this step is a tick of the loop of process proc
TickStep(proc) == loopPc[proc] = "tick" /\ loopPc'[proc] # "tick"

\* C22: the extraction returns the result of the raw scan exactly when the
\* structured path produced no identifier, and the structured result itself
\* otherwise; a pass for which both yield nothing stops no proxy, starts none,
\* writes no per-port credential file and no proxy configuration, and the loop
\* that ran it goes to its sleep.
C22_RawFallback ==
  /\ [](NoStructured => dbUuids = extract_uuids_raw_file(dbTables))
  /\ [](~ NoStructured => dbUuids = structured_uuids(dbTables) /\ dbUuids # <<>>)
  /\ [][PassStep /\ dbUuids = <<>> =>
          /\ xrayProcs' = xrayProcs /\ uuidFile' = uuidFile /\ xrayConf' = xrayConf
          /\ lastPass'.kills = {} /\ lastPass'.launches = NoLaunches
          /\ \A proc \in Procs : TickStep(proc) => loopPc'[proc] = "sleep"]_vars

\* a tick of the watcher found an unknown schema and nothing in the bytes of
\* the file, and the loop sleeps
C22_Witness ==
  /\ dbTables.mode = "noschema" /\ dbTables.text = {}
  /\ lastPass.phase = "empty" /\ lastPass.proc = "svc" /\ lastPass.srcSame
  /\ loopPc["svc"] = "sleep"
  /\ xrayProcs # {}

\* --- C23
\* what a pass of process proc decides and does to the proxies when the
\* source holds uuids
PassDecision(proc, uuids) ==
  LET w == [World EXCEPT !.dbUuids = uuids]
      r == IF proc = "svc"
           THEN refresh_uuids_for_all_namespaces_noninteractive(w, lastPass, proc)
           ELSE refresh_uuids_for_all_namespaces(w, lastPass, proc, TRUE, FALSE, TRUE)
  IN  <<r.log.phase, r.log.changed, r.log.kills, r.log.launches>>

\* C23: the hash of an identifier list equals the hash of each of its
\* permutations, duplicates included; hence what a pass decides and does to
\* the proxies is the same for the source as it is and for the source with
\* its identifiers in any other order: reordering alone never makes a pass
\* resynchronise.
C23_OrderIrrelevant ==
  \A b \in Reorders(dbUuids) :
     /\ IsPermutation(b, dbUuids)
     /\ get_uuids_hash(b) = get_uuids_hash(dbUuids)
     /\ \A proc \in Procs : PassDecision(proc, b) = PassDecision(proc, dbUuids)

\* the watcher has read a source whose rows came in another order than those
\* the running proxy was started with, and has left the proxy alone
C23_Witness ==
  /\ lastPass.phase = "unchanged" /\ lastPass.srcSame /\ lastPass.proc = "svc"
  /\ ~ lastPass.changed /\ lastPass.kills = {}
  /\ dbTables.mode = "ok"
  /\ \E x \in xrayProcs : x.allow # dbUuids /\ IsPermutation(x.allow, dbUuids)

\* --- C24
\* the tunnel of port p is up: its namespace has its address
ActiveTunnel(p) == NsName(p) \in nsList /\ nsAddr[NsName(p)] # 0

Topology(p) ==
  [ns_name |-> <<"ns", p>>, veth_host |-> <<"veth", p>>, veth_ns |-> <<"vpeer", p>>,
   subnet_octet |-> (p % 250) + 2,
   host_ip |-> <<10, 100, (p % 250) + 2, 1>>, ns_ip |-> <<10, 100, (p % 250) + 2, 2>>]

\* t is the topology of p in every name and address t holds
Agrees(t, p) ==
  /\ t.ns_name = Topology(p).ns_name
  /\ t.veth_host \in {Unused, Topology(p).veth_host}
  /\ t.veth_ns \in {Unused, Topology(p).veth_ns}
  /\ t.subnet_octet = Topology(p).subnet_octet
  /\ t.host_ip \in {Unused, Topology(p).host_ip}
  /\ t.ns_ip = Topology(p).ns_ip

\* this step is an operation that derived names and addresses
Derives == topo' # topo /\ topo'.t # NoTopology

\* the namespace of the earlier shell version stands in for the port
LegacyStandsIn ==
  /\ topo.port = LegacyPort
  /\ NsName(LegacyPort) \notin nsList /\ NSXRAY \in nsList
  /\ topo'.op \in {"delete_setup", "restart_wireguard"}

\* C25 (as stated): for every port p, whichever of create_setup,
\* restore_setup, delete_setup and restart_wireguard runs derives namespace
\* ns-p, host link veth-p, namespace link vpeer-p, octet (p mod 250) + 2, host
\* address 10.100.<octet>.1 and namespace address 10.100.<octet>.2 (octet 2
\* for port 51000).
C25_SameTopology ==
  /\ Topology(51000).subnet_octet = 2
  /\ topo.t # NoTopology => Agrees(topo.t, topo.port)

\* C25 (amended): the four operations derive that topology for every port,
\* except where port 9349 has no namespace ns-9349 and the namespace nsxray
\* exists: delete_setup then derives nsxray, veth-host and 10.200.200.2, and
\* restart_wireguard nsxray with vpeer-9349 and the addresses of octet 101.
\* A tunnel whose namespace ns-p exists is addressed the same by all four.
C25_SameTopologyUnlessLegacy ==
  [][Derives =>
       /\ Topology(51000).subnet_octet = 2
       /\ ~ LegacyStandsIn => Agrees(topo'.t, topo.port)
       /\ LegacyStandsIn /\ topo'.op = "delete_setup" =>
             /\ topo'.t.ns_name = NSXRAY
             /\ topo'.t.veth_host = <<"veth-host">>
             /\ topo'.t.ns_ip = <<10, 200, 200, 2>>
       /\ LegacyStandsIn /\ topo'.op = "restart_wireguard" =>
             /\ topo'.t.ns_name = NSXRAY
             /\ topo'.t.veth_ns = <<"vpeer", LegacyPort>>
             /\ topo'.t.host_ip = <<10, 100, 101, 1>>
             /\ topo'.t.ns_ip = <<10, 100, 101, 2>>]_vars

\* the tunnel of port 250, made by create_setup, has been deleted under the
\* names and addresses it was made with
C25_Witness ==
  /\ topo.port = 250 /\ topo.op = "delete_setup"
  /\ topo.t.ns_name = NsName(250) /\ topo.t.ns_ip = <<10, 100, 2, 2>>
  /\ NsName(250) \notin nsList /\ stateFiles[250] = NoRecord
  /\ dnat = <<>>

\* --- C26
\* C26 (as stated): whatever another process reads from a file the program
\* rewrites is the complete old content or the complete new content.
C26_AtomicWrites == io.seen # NotRead => io.seen \in {io.old, io.new}

\* a reader got an empty file while non-empty content was being written over
\* non-empty content
C26_Witness ==
  /\ io.file = "last_hash" /\ io.pc = "open"
  /\ io.old # <<>> /\ io.new # <<>>
  /\ io.seen = <<>>

\* --- C27
\* before the pass: no address or no public port can be derived for ns
Skipped(ns) == InferPort(World, ns) = 0

\* C27 (as stated): a pass that gets as far as its loop over the namespaces
\* leaves the proxies of a managed namespace without derivable address or
\* port, and the credential file and proxy configuration of its port, as they
\* are, and processes every other managed namespace in full: credential file
\* written and, when the pass resynchronises, proxy configuration written and
\* a proxy launched with the current list.
C27_SkipIsolated ==
  [][PassStep /\ lastPass'.phase \in {"unchanged", "synced"} =>
       /\ \A ns \in ManagedNamespaces(World) :
             Skipped(ns) =>
                /\ {x \in xrayProcs' : x.ns = ns} = {x \in xrayProcs : x.ns = ns}
                /\ uuidFile'[ns[2]] = uuidFile[ns[2]]
                /\ xrayConf'[ns[2]] = xrayConf[ns[2]]
                /\ lastPass'.launches[ns] = 0
       /\ \A d \in Derivable(World) :
             /\ uuidFile'[d[2]] = save_uuids_to_file(dbUuids)
             /\ lastPass'.changed =>
                   /\ xrayConf'[d[2]] = create_xray_config(dbUuids)
                   /\ lastPass'.launches[d[1]] = 1
                   /\ \E x \in ProxiesAfter(d[1], d[2]) : x.allow = dbUuids]_vars

\* a pass has skipped ns-250, which has no address, and has written the
\* credential file and the proxy configuration of port 250 for ns-500
C27_Witness ==
  /\ lastPass.phase = "synced" /\ lastPass.srcSame
  /\ NsName(250) \in nsList /\ nsAddr[NsName(250)] = 0
  /\ lastPass.launches[NsName(250)] = 0
  /\ uuidFile[250] = save_uuids_to_file(dbUuids)
  /\ \E x \in xrayProcs : x.ns = NsName(500) /\ x.port = 250

\* --- C28
CallsOf(path) == IF entry.path = path THEN Range(entry.calls) ELSE {}

\* C28 (as stated): every port written to the state store and every port
\* passed to restore_setup or delete_setup is an integer of 1..MaxPort,
\* whichever entry point supplies it: interactive create, manual restore,
\* delete, the name of a namespace, the name of a file.
C28_PortsInRange ==
  \A path \in {"create", "manual_restore", "delete", "introspection", "scan"} :
     /\ \A c \in CallsOf(path) : c[2] \in 1..MaxPort
     /\ entry.saved \subseteq 1..MaxPort

\* the ports of read_port (interactive create, manual restore) are in range
C28_ReadPortInRange ==
  \A path \in {"create", "manual_restore"} :
     \A c \in CallsOf(path) : c[2] \in 1..MaxPort

\* the scan has saved port 0 for the file wg0.conf and restores it
C28_Witness ==
  /\ entry.path = "scan"
  /\ entry.text = <<"w", "g", "0", ".", "c", "o", "n", "f">>
  /\ entry.calls = <<<<"save_setup_state", 0>>, <<"restore_setup", 0>>>>
  /\ entry.saved = {0}

\* --- C29
\* the namespace of port does not exist and nothing of an earlier tunnel on
\* the port is left: no link, no tunnel interface, no route, no rule
Fresh(w, port) ==
  /\ NsName(port) \notin w.nsList
  /\ LinkDelete(w, port) = w
  /\ w.wgLoc[port] = "none"
  /\ port \notin w.nsRoutes
  /\ DeleteForward(DeleteMasq(DeleteDnat(w, port, SubnetOctet(port)),
                               SubnetOctet(port), port),
                    port, SubnetOctet(port)) = w

NetOf(w) == <<w.nsList, w.nsAddr, w.vethHost, w.wgLoc, w.nsRoutes, w.dnat, w.masq,
              w.fwd, w.logRules, w.dnsOverride>>

\* a call of restore_setup on a fresh port ends as create_setup would have
\* with the same failing step: same result, same state of the network
RestoredAsCreated ==
  LET c == create_setup_net(World, lastOp'.port, lastOp'.result # "noresolve",
                            lastOp'.fail)
  IN /\ c.result = lastOp'.result
     /\ NetOf(c.w) = NetOf(World')

\* C29 (as stated): on a port whose namespace does not exist and that has no
\* stale resources, restore_setup makes the topology changes of create_setup,
\* rolls back as create_setup does on the same failing step, and leaves the
\* same state of the network.
C29_SameAsCreate ==
  [][lastOp'.op = "restore_setup" /\ Fresh(World, lastOp'.port) => RestoredAsCreated]_vars

\* C29 (amended): the same, for every failing step but an `ip netns add` that
\* fails once: there restore_setup returns False and leaves the state as it
\* is, while create_setup deletes the namespace, adds it again and goes on.
C29_SameAsCreateButRetry ==
  [][lastOp'.op = "restore_setup" /\ Fresh(World, lastOp'.port) =>
       IF lastOp'.fail = "netns_add_once" /\ lastOp'.result # "noresolve"
       THEN /\ lastOp'.result = "nsfail"
            /\ NetOf(World') = NetOf(World)
            /\ create_setup_net(World, lastOp'.port, TRUE, lastOp'.fail).result = "ok"
       ELSE RestoredAsCreated]_vars

\* restore_setup has rebuilt the tunnel of port 250 next to that of port 500,
\* or has rolled back after a failed tunnel interface
C29_Witness ==
  /\ lastOp.op = "restore_setup" /\ lastOp.port = 250
  /\ NsName(500) \in nsList
  /\ \/ lastOp.result = "ok" /\ NsName(250) \in nsList /\ wgLoc[250] = "ns"
     \/ lastOp.result = "wgfail" /\ Fresh(World, 250)

\* --- C30
Waiting == wait.pc \in {"sleeping", "probing", "report"}

\* C30: the handshake wait of restart_wireguard ends.  It probes at most
\* MaxProbes times, ProbeInterval seconds after the start and after each
\* probe; a probe that shows a handshake is the last one; after MaxProbes
\* probes without a handshake the call prints that there is no handshake yet
\* and goes on to its end.
C30_WaitTerminates ==
  /\ [](/\ wait.probes <= MaxProbes
        /\ wait.slept = ProbeInterval * (wait.probes + IF wait.pc = "probing" THEN 1 ELSE 0))
  /\ [][wait.pc = "probing" /\ wait'.probes = wait.probes + 1 /\ wait.handshake =>
          wait'.pc = "report" /\ wait'.handshake_detected]_vars
  /\ [][wait.pc = "probing" /\ wait'.probes = wait.probes + 1 /\ ~ wait.handshake =>
          /\ ~ wait'.handshake_detected
          /\ wait'.pc = IF wait'.probes = MaxProbes THEN "report" ELSE "sleeping"]_vars
  /\ [][wait.pc = "report" /\ wait'.pc # "report" =>
          /\ wait'.pc = "done"
          /\ wait'.report = IF wait.handshake_detected THEN "restarted"
                             ELSE "no_handshake_yet"
          /\ ~ wait.handshake_detected => wait.probes = MaxProbes]_vars
  /\ (Waiting ~> wait.pc = "done")

\* ten probes have shown no handshake and the call has come to its end
C30_Witness ==
  /\ wait.pc = "done" /\ wait.report = "no_handshake_yet"
  /\ wait.probes = MaxProbes /\ wait.slept = MaxProbes * ProbeInterval
  /\ wait.port = 250

\* --- C31
\* a credential source with at least one identifier is configured
Sourced == dbExists /\ configSaved = DbPath /\ dbUuids # <<>>

\* this step is "Start/Restart Xray": manage_xray with action "start" on a
\* port whose namespace exists, or manage_xray_all
StartStep ==
  /\ PassStep /\ lastPass'.proc = "ui"
  /\ lastOp'.op = "manage_xray" /\ lastOp'.result \in {"start", "all"}

\* C31 (as stated): after "Start/Restart Xray" with a configured source that
\* holds an identifier, a proxy runs on the target port in its namespace (for
\* manage_xray_all: on the port of every managed namespace), also when the
\* credentials and the modification time of the source are as the last pass
\* left them.
C31_StartLeavesProxy ==
  [][StartStep /\ Sourced =>
       \A d \in Derivable(World) :
          (lastOp'.result = "all" \/ d = <<NsName(lastOp'.port), lastOp'.port>>) =>
             ProxiesAfter(d[1], d[2]) # {}]_vars

\* "Start/Restart Xray" on port 250 found nothing changed: the proxy of
\* ns-250 was killed and none was launched
C31_Witness ==
  /\ lastOp.op = "manage_xray" /\ lastOp.port = 250 /\ lastOp.result = "start"
  /\ lastPass.proc = "ui" /\ lastPass.phase = "unchanged" /\ lastPass.srcSame
  /\ Sourced
  /\ <<NsName(250), 250>> \in Derivable(World)
  /\ PidsOnPort(World, NsName(250), 250) = {}
  /\ PidsOnPort(World, NsName(9349), 9349) # {}

\* --- C32
\* this step is a create_setup that built its tunnel and ran its pass
CreatedStep ==
  /\ PassStep /\ lastPass'.proc = "ui"
  /\ lastOp'.op = "create" /\ lastOp'.result = "ok" /\ lastOp'.fail = "none"

\* C32 (as stated): after a create_setup that succeeds for port p, with a
\* configured source that holds an identifier, a proxy configured with the
\* current list runs in ns-p, also when an earlier pass has recorded the
\* current hash and modification time.
C32_CreateStartsProxy ==
  [][CreatedStep /\ Sourced =>
       \E x \in ProxiesAfter(NsName(lastOp'.port), lastOp'.port) :
          x.allow = create_xray_config(dbUuids)]_vars

\* create_setup has built the tunnel of port 250 after a tick of the watcher
\* had recorded the hash and the modification time: its pass found nothing
\* changed and ns-250 has no proxy
C32_Witness ==
  /\ lastOp.op = "create" /\ lastOp.port = 250 /\ lastOp.result = "ok"
  /\ lastOp.fail = "none"
  /\ lastPass.proc = "ui" /\ lastPass.phase = "unchanged" /\ lastPass.srcSame
  /\ Sourced
  /\ <<NsName(250), 250>> \in Derivable(World)
  /\ PidsOnPort(World, NsName(250), 250) = {}

\* --- C33
\* C33 (as stated): the port a pass derives for the namespace ns-p is p,
\* whatever tunnels are active, so the proxies inside ns-p listen on p and a
\* pass that resynchronises writes the credential file and the proxy
\* configuration of p for it.
C33_DerivedPortIsOwn ==
  /\ [](\A d \in Derivable(World) : d[1] = NsName(d[2]))
  /\ [](\A x \in xrayProcs : x.ns = NsName(x.port))
  /\ [][PassStep /\ lastPass'.phase = "synced" =>
          \A ns \in ManagedNamespaces(World) :
             lastPass'.launches[ns] > 0 =>
                /\ uuidFile'[ns[2]] = save_uuids_to_file(dbUuids)
                /\ xrayConf'[ns[2]] = create_xray_config(dbUuids)]_vars

\* the tunnels of ports 250 and 500 are whole and a pass has run: the proxy
\* inside ns-500 listens on port 250 and port 500 has no credential file
C33_Witness ==
  /\ lastPass.phase = "synced" /\ lastPass.srcSame
  /\ nsAddr[NsName(250)] = SubnetOctet(250) /\ nsAddr[NsName(500)] = SubnetOctet(500)
  /\ \E x \in xrayProcs : x.ns = NsName(500) /\ x.port = 250
  /\ uuidFile[500] = Absent

\* --- C34
\* what the host holds for the tunnel of port q: namespace, address, link,
\* tunnel interface, routes, DNS override, the number of its DNAT, masquerade
\* and forwarding rules, its record in the State Store
ResourcesOf(w, q) ==
  [ns |-> NsName(q) \in w.nsList,
   addr |-> w.nsAddr[NsName(q)],
   veth |-> w.vethHost[q],
   wg |-> w.wgLoc[q],
   routes |-> q \in w.nsRoutes,
   dns |-> NsName(q) \in w.dnsOverride,
   dnat |-> [proto \in {"tcp", "udp"} |-> Count(w.dnat, DnatRule(proto, q, SubnetOctet(q)))],
   masq |-> Count(w.masq, MasqRule(SubnetOctet(q), q)),
   fwdIn |-> [proto \in {"tcp", "udp"} |-> Count(w.fwd, FwdInRule(proto, SubnetOctet(q), q))],
   fwdOut |-> [proto \in {"tcp", "udp"} |-> Count(w.fwd, FwdOutRule(proto, SubnetOctet(q)))],
   record |-> w.stateFiles[q]]

\* C34 (as stated): delete_setup(p) and create_setup(p) leave the namespace,
\* links, addresses, NAT and forwarding rules and State Store record of every
\* other active port q unchanged, ports congruent modulo 250 and port 9349
\* with the namespace "nsxray" included.
C34_OtherPortsUntouched ==
  [][lastOp'.op \in {"create", "delete"} =>
       \A q \in Ports \ {lastOp'.port} :
          NsName(q) \in nsList => ResourcesOf(World', q) = ResourcesOf(World, q)]_vars

\* delete_setup(500) has run next to the tunnel of port 250, which stands
\* without its forwarding rules for return traffic
C34_Witness ==
  /\ lastOp.op = "delete" /\ lastOp.port = 500 /\ lastOp.result = "deleted"
  /\ NsName(250) \in nsList /\ wgLoc[250] = "ns" /\ 250 \in nsRoutes
  /\ Count(dnat, DnatRule("tcp", 250, SubnetOctet(250))) = 1
  /\ Count(fwd, FwdInRule("tcp", SubnetOctet(250), 250)) = 1
  /\ Count(fwd, FwdOutRule("tcp", SubnetOctet(250))) = 0

\* --- C35
\* the number of rules the host holds for port p: the DNAT rule and the two
\* forwarding-accept rules of each protocol, the masquerade rule of its subnet
RuleCounts(p) ==
  {Count(dnat, DnatRule(proto, p, SubnetOctet(p))) : proto \in {"tcp", "udp"}}
    \cup {Count(fwd, FwdInRule(proto, SubnetOctet(p), p)) : proto \in {"tcp", "udp"}}
    \cup {Count(fwd, FwdOutRule(proto, SubnetOctet(p))) : proto \in {"tcp", "udp"}}
    \cup {Count(masq, MasqRule(SubnetOctet(p), p))}

\* C35: after any sequence of create_setup, restore_setup and delete_setup
\* calls the host holds at most one DNAT rule and at most one forwarding-accept
\* rule per port and protocol and at most one masquerade rule per port, and
\* when the last call was delete_setup(p) it holds none of the rules of p.
C35_AtMostOneRule ==
  /\ \A p \in Ports : RuleCounts(p) \subseteq {0, 1}
  /\ lastOp.op = "delete" => RuleCounts(lastOp.port) = {0}

\* delete_setup has deleted the tunnel of port 250 that stood next to the
\* tunnel of port 9349, which keeps one rule of each kind
C35_Witness ==
  /\ lastOp.op = "delete" /\ lastOp.port = 250 /\ lastOp.result = "deleted"
  /\ stateFiles[250] = NoRecord
  /\ NsName(9349) \in nsList
  /\ RuleCounts(9349) = {1}

\* --- C36
\* both passes that followed the source change have returned
BothReturned == \A proc \in Procs : pass.of[proc].pc = "done"

\* the proxy of every tunnel runs with the identifiers of the source, in
\* whatever order
ChangeApplied ==
  \A q \in Ports :
     NsName(q) \in nsList =>
        /\ get_uuids_hash(xrayConf[q]) = get_uuids_hash(dbUuids)
        /\ \E x \in xrayProcs : /\ x.ns = NsName(q) /\ x.port = q
                                /\ get_uuids_hash(x.allow) = get_uuids_hash(dbUuids)

\* C36 (as stated): when the watcher's pass and the interactive pass
\* interleave after one source change, the change is applied once both have
\* returned, and the proxy of each namespace is launched at most once for
\* that change.
C36_AppliedOnce ==
  /\ BothReturned /\ dbUuids # <<>> => ChangeApplied
  /\ \A ns \in Namespaces : pass.launches[ns] <= 1

\* the part of C36 that holds: the change is not missed by both passes
C36_NotMissed == BothReturned /\ dbUuids # <<>> => ChangeApplied

\* both passes found the modification time changed, neither took its previous
\* hash from memory, and each launched the proxy of ns-250
C36_Witness ==
  /\ BothReturned
  /\ \A proc \in Procs : pass.of[proc].db_file_changed /\ pass.of[proc].from # "memory"
  /\ pass.launches[NsName(250)] = 2
  /\ ChangeApplied

\* --- C37
\* before the pass: the watcher's pass was the last one, it resynchronised,
\* the source is as it read it, and the hash and the modification time it
\* persisted are those of the source
WatcherApplied ==
  /\ lastPass.proc = "svc" /\ lastPass.phase = "synced" /\ lastPass.srcSame
  /\ hashFile = get_uuids_hash(dbUuids)
  /\ mtimeFile = dbMtime

\* C37 (as stated): after the watcher has applied the source and persisted its
\* hash and modification time, a non-forced pass of the menu process that
\* still holds an older hash in LAST_UUID_HASH compares against the persisted
\* hash and decides not to resynchronise.
C37_PersistedHashWins ==
  [][PassStep /\ lastPass'.proc = "ui" /\ ~ lastPass'.force
       /\ WatcherApplied
       /\ LAST_UUID_HASH["ui"] \notin {None, hashFile}
     => /\ ~ lastPass'.changed
        /\ NothingRestarted]_vars

\* the menu process has resynchronised a source whose modification time and
\* hash were the persisted ones, on the hash it held in memory
C37_Witness ==
  /\ lastPass.proc = "ui" /\ ~ lastPass.force
  /\ lastPass.phase = "synced" /\ lastPass.changed
  /\ lastPass.from = "memory" /\ ~ lastPass.fileChanged
  /\ \E ns \in Namespaces : lastPass.launches[ns] > 0
  /\ LAST_UUID_HASH["svc"] = hashFile

\* --- C38
\* the step has brought up the namespace of port q and a proxy runs in it
RestoredInStep(q) ==
  /\ NsName(q) \notin nsList
  /\ NsName(q) \in nsList'
  /\ ProxiesAfter(NsName(q), q) # {}

\* C38 (as stated): in a run of restore_all_setups the proxy of a namespace
\* is started at most once: the last pass of the run does not kill (and
\* launch again) the proxy of a namespace that the run itself has restored.
C38_RestartedAtMostOnce ==
  [][lastOp'.op = "restore_all" =>
       \A q \in Ports : RestoredInStep(q) => <<NsName(q), q>> \notin lastPass'.kills]_vars

\* restore_all_setups has restored tunnels, and its last pass, the forced one,
\* has killed and launched again the proxies of ns-250 and ns-9349
C38_Witness ==
  /\ lastOp.op = "restore_all" /\ lastOp.result = "restored"
  /\ lastPass.force /\ lastPass.phase = "synced"
  /\ lastPass.kills = {<<NsName(250), 250>>, <<NsName(9349), 9349>>}
  /\ lastPass.launches[NsName(250)] = 1 /\ lastPass.launches[NsName(9349)] = 1

\* --- C39
\* C39 (as stated): once start_marzban_log_watcher has run with the panel
\* marzban and the marzban CLI present (its flag is set), one thread follows
\* `marzban logs`, so that a "New user ... added" line leads to a pass; never
\* more than one thread does.
C39_LogLoopRuns ==
  /\ logw.MARZBAN_LOG_WATCHER_STARTED => logw.threads = 1
  /\ logw.threads <= 1

\* the flag is set, the panel is marzban, the CLI is there, the panel has
\* logged a new user, and no thread follows the log: no pass has run
C39_Witness ==
  /\ logw.MARZBAN_LOG_WATCHER_STARTED
  /\ logw.PANEL_PANEL_NAME = "marzban" /\ logw.marzban_cli
  /\ \E i \in 1..Len(logw.lines) : logw.lines[i] = "new_user_added"
  /\ logw.threads = 0
  /\ lastPass = NoPass
====
